---- MODULE Spec2Model ----
(***************************************************************************)
(* MLLP transport of the RevStream demo: the HL7 sender                    *)
(* (RevStream/hl7-sender/sender.py) and the billing simulator              *)
(* (RevStream/billing-simulator/server.py).                                *)
(*                                                                         *)
(* bytes objects are sequences of byte values 0..255, str objects are      *)
(* sequences of Unicode code points.  Python's 0-based indices and slices  *)
(* are kept in the operators that model them.                              *)
(***************************************************************************)
EXTENDS Integers, Sequences, FiniteSets, TLC

(***************************************************************************)
(* Bounds of the model.                                                    *)
(***************************************************************************)
\* longest arbitrary byte stream a raw client writes on one connection
MaxStreamLen == 5
\* most '|'-separated fields of a first line handed to create_ack
MaxAckFields == 12
\* longest arbitrary byte stream a raw peer answers the sender with
MaxRespLen == 3

(***************************************************************************)
(* Program constants.                                                      *)
(***************************************************************************)
MLLP_START == <<11>>
MLLP_END == <<28, 13>>
\* '\r', the segment terminator message.split('\r') splits on
CR == 13
\* '|', the field separator msh.split('|') splits on
PIPE == 124
\* U+FFFD, what decode('utf-8', errors='replace') puts for an undecodable byte
REPLACEMENT_CHARACTER == 65533
\* conn.recv(4096)
RECV_SIZE == 4096
\* if len(fields) >= 10
MIN_MSH_FIELDS == 10
\* sender.py line 35: sock.settimeout(30)
SOCKET_TIMEOUT == 30

(***************************************************************************)
(* Python sequence semantics.                                              *)
(***************************************************************************)
Min(a, b) == IF a <= b THEN a ELSE b

Max(a, b) == IF a >= b THEN a ELSE b

\* s[a:b] for a sequence s, negative indices counted from the end
PySlice(s, a, b) ==
    LET n == Len(s)
        lo == IF a < 0 THEN Max(n + a, 0) ELSE Min(a, n)
        hi == IF b < 0 THEN Max(n + b, 0) ELSE Min(b, n)
    IN  SubSeq(s, lo + 1, hi)

\* s[a:]
PyTail(s, a) == PySlice(s, a, Len(s))

\* In the definitions below an argument or an intermediate value is bound once
\* (s \in {arg}), so that it is not evaluated anew at each of its uses.

\* pat in s
Contains(arg, pat) ==
    \E s \in {arg} :
        \E i \in 0..(Len(s) - Len(pat)) : SubSeq(s, i + 1, i + Len(pat)) = pat

\* the offsets at which pat occurs in s
Occurrences(s, pat) ==
    {i \in 0..(Len(s) - Len(pat)) : SubSeq(s, i + 1, i + Len(pat)) = pat}

\* s.index(pat): the lowest offset of pat in s (ValueError when absent: the
\* callers test `pat in s` first; -1 stands for the raise)
PyIndex(s, pat) ==
    CHOOSE r \in
        { IF occ = {} THEN -1 ELSE CHOOSE i \in occ : \A j \in occ : i <= j
          : occ \in {Occurrences(s, pat)} } : TRUE

\* s.replace(pat, b''), for the one- and two-byte markers: every occurrence of
\* pat removed in one left-to-right pass (occurrences of a marker never
\* overlap).  The sequence is cut in halves, never inside an occurrence, and
\* the halves are done separately.
RECURSIVE PyRemoveAll(_, _)
PyRemoveAll(arg, pat) ==
    CHOOSE r \in
        { IF Len(s) <= 2
          THEN IF Len(pat) = 1 THEN SelectSeq(s, LAMBDA x : <<x>> # pat)
               ELSE IF s = pat THEN <<>> ELSE s
          ELSE LET h == Len(s) \div 2
                   cut == IF Len(pat) = 2 /\ SubSeq(s, h, h + 1) = pat THEN h + 1 ELSE h
               IN  PyRemoveAll(SubSeq(s, 1, cut), pat)
                       \o PyRemoveAll(SubSeq(s, cut + 1, Len(s)), pat)
          : s \in {arg} } : TRUE

\* s.split(sep) for a one-character separator: always at least one element
RECURSIVE PySplit(_, _)
PySplit(arg, sep) ==
    CHOOSE r \in
        { IF \A i \in 1..Len(s) : s[i] # sep THEN <<s>>
          ELSE LET k == CHOOSE i \in 1..Len(s) :
                           s[i] = sep /\ \A j \in 1..(i - 1) : s[j] # sep
               IN  <<SubSeq(s, 1, k - 1)>> \o PySplit(SubSeq(s, k + 1, Len(s)), sep)
          : s \in {arg} } : TRUE

\* s.startswith(prefix)
StartsWith(s, prefix) ==
    Len(s) >= Len(prefix) /\ SubSeq(s, 1, Len(prefix)) = prefix

(***************************************************************************)
(* UTF-8, for code points below U+0800 (one- and two-byte forms) and byte  *)
(* values below 0xE0.                                                      *)
(***************************************************************************)
\* str.encode(): one byte below U+0080, two bytes below U+0800; the encoding
\* of a text is the encodings of its two halves in a row
RECURSIVE Utf8Encode(_)
Utf8Encode(arg) ==
    CHOOSE r \in
        { IF str = <<>> THEN <<>>
          ELSE IF Len(str) = 1
          THEN IF str[1] < 128 THEN <<str[1]>>
               ELSE <<192 + (str[1] \div 64), 128 + (str[1] % 64)>>
          ELSE Utf8Encode(SubSeq(str, 1, Len(str) \div 2))
                   \o Utf8Encode(SubSeq(str, Len(str) \div 2 + 1, Len(str)))
          : str \in {arg} } : TRUE

\* a lead byte of a two-byte form, 0xC2..0xDF
IsLead2(b) == b >= 194 /\ b <= 223

\* a continuation byte 10xxxxxx
IsContinuation(b) == b >= 128 /\ b <= 191

\* bytes.decode('utf-8', errors='replace'): an ASCII byte is itself; a lead byte
\* 0xC2..0xDF followed by a continuation byte is one code point; any other byte
\* is replaced by U+FFFD and decoding resumes at the next byte.  The bytes are
\* cut in halves, never between a lead byte and its continuation, and the
\* halves are decoded separately.
RECURSIVE Utf8DecodeReplace(_)
Utf8DecodeReplace(arg) ==
    CHOOSE r \in
        { IF bytes = <<>> THEN <<>>
          ELSE IF Len(bytes) = 1
          THEN IF bytes[1] < 128 THEN bytes ELSE <<REPLACEMENT_CHARACTER>>
          ELSE IF Len(bytes) = 2 /\ IsLead2(bytes[1]) /\ IsContinuation(bytes[2])
          THEN <<(bytes[1] - 192) * 64 + (bytes[2] - 128)>>
          ELSE LET h == Len(bytes) \div 2
                   cut == IF IsLead2(bytes[h]) /\ IsContinuation(bytes[h + 1])
                          THEN h + 1 ELSE h
               IN  Utf8DecodeReplace(SubSeq(bytes, 1, cut))
                       \o Utf8DecodeReplace(SubSeq(bytes, cut + 1, Len(bytes)))
          : bytes \in {arg} } : TRUE

(***************************************************************************)
(* create_ack (server.py)                                                  *)
(***************************************************************************)
\* datetime.datetime.now().strftime("%Y%m%d%H%M%S"): the readings of the clock
\* "20240101000000" and "20240101000001"
Timestamps ==
    { <<50, 48, 50, 52, 48, 49, 48, 49, 48, 48, 48, 48, 48, 48>>,
      <<50, 48, 50, 52, 48, 49, 48, 49, 48, 48, 48, 48, 48, 49>> }

\* what the clock reads while a session is served
SessionTimestamps == {<<50, 48, 50, 52, 48, 49, 48, 49, 48, 48, 48, 48, 48, 48>>}

\* "UNKNOWN"
STR_UNKNOWN == <<85, 78, 75, 78, 79, 87, 78>>
\* "BILLING"
STR_BILLING == <<66, 73, 76, 76, 73, 78, 71>>
\* "HOSPITAL"
STR_HOSPITAL == <<72, 79, 83, 80, 73, 84, 65, 76>>
\* "0"
STR_ZERO == <<48>>
\* "MSH|^~\&|"
STR_ACK_MSH_HEAD == <<77, 83, 72, 124, 94, 126, 92, 38, 124>>
\* "||ACK^P03|"
STR_ACK_EVENT == <<124, 124, 65, 67, 75, 94, 80, 48, 51, 124>>
\* "|P|2.5\r"
STR_ACK_MSH_TAIL == <<124, 80, 124, 50, 46, 53, 13>>
\* "MSA|AA|"
STR_ACK_MSA_HEAD == <<77, 83, 65, 124, 65, 65, 124>>
\* "|Message received successfully\r"
STR_ACK_MSA_TAIL ==
    <<124, 77, 101, 115, 115, 97, 103, 101, 32, 114, 101, 99, 101, 105, 118, 101,
      100, 32, 115, 117, 99, 99, 101, 115, 115, 102, 117, 108, 108, 121, 13>>

\* fields[i], IndexError when i is out of range
FieldAt(fields, i) ==
    IF i < Len(fields) THEN [exc |-> "none", value |-> fields[i + 1]]
    ELSE [exc |-> "IndexError", value |-> <<>>]

\* the test one field short
HasRoutingFieldsOffByOne(fields) == Len(fields) >= MIN_MSH_FIELDS - 1

\* len(fields) >= 10
HasRoutingFields(fields) == Len(fields) >= MIN_MSH_FIELDS

\* lines 31-47: the five control fields of the first line, or the sentinels
ControlFields(message) ==
    LET lines == PySplit(message, CR)
        msh == IF Len(lines) > 0 THEN lines[1] ELSE <<>>
    IN  CHOOSE r \in
            { IF HasRoutingFields(fields)
              THEN LET f2 == FieldAt(fields, 2)
                       f3 == FieldAt(fields, 3)
                       f4 == FieldAt(fields, 4)
                       f5 == FieldAt(fields, 5)
                       f9 == FieldAt(fields, 9)
                   IN  [exc |-> IF \E f \in {f2, f3, f4, f5, f9} : f.exc # "none"
                                THEN "IndexError" ELSE "none",
                        sending_app |-> f2.value,
                        sending_facility |-> f3.value,
                        receiving_app |-> f4.value,
                        receiving_facility |-> f5.value,
                        msg_control_id |-> f9.value]
              ELSE [exc |-> "none",
                    sending_app |-> STR_UNKNOWN,
                    sending_facility |-> STR_UNKNOWN,
                    receiving_app |-> STR_BILLING,
                    receiving_facility |-> STR_HOSPITAL,
                    msg_control_id |-> STR_ZERO]
              : fields \in {PySplit(msh, PIPE)} } : TRUE

\* the routing fields copied in the order of the message, not swapped
AckTextUnswapped(cf, timestamp) ==
    STR_ACK_MSH_HEAD \o cf.sending_app \o <<PIPE>> \o cf.sending_facility
        \o <<PIPE>> \o cf.receiving_app \o <<PIPE>> \o cf.receiving_facility \o <<PIPE>>
        \o timestamp \o STR_ACK_EVENT \o cf.msg_control_id \o STR_ACK_MSH_TAIL
        \o STR_ACK_MSA_HEAD \o cf.msg_control_id \o STR_ACK_MSA_TAIL

\* lines 51-55: the two-line acknowledgment text
AckText(cf, timestamp) ==
    STR_ACK_MSH_HEAD \o cf.receiving_app \o <<PIPE>> \o cf.receiving_facility
        \o <<PIPE>> \o cf.sending_app \o <<PIPE>> \o cf.sending_facility \o <<PIPE>>
        \o timestamp \o STR_ACK_EVENT \o cf.msg_control_id \o STR_ACK_MSH_TAIL
        \o STR_ACK_MSA_HEAD \o cf.msg_control_id \o STR_ACK_MSA_TAIL

\* create_ack(message) when the clock reads timestamp: the framed
\* acknowledgment, or the exception raised
create_ack(message, timestamp) ==
    CHOOSE r \in
        { IF cf.exc # "none" THEN [exc |-> cf.exc, value |-> <<>>]
          ELSE [exc |-> "none",
                value |-> MLLP_START \o Utf8Encode(AckText(cf, timestamp)) \o MLLP_END]
          : cf \in {ControlFields(message)} } : TRUE

(***************************************************************************)
(* extract_message_info of server.py.                                      *)
(***************************************************************************)
\* "Unknown"
STR_INFO_UNKNOWN == <<85, 110, 107, 110, 111, 119, 110>>
\* "MSH|"
STR_MSH_LINE == <<77, 83, 72, PIPE>>
\* "PID|"
STR_PID_LINE == <<80, 73, 68, PIPE>>
\* "FT1|"
STR_FT1_LINE == <<70, 84, 49, PIPE>>
\* line 85: fields[8]
MESSAGE_TYPE_FIELD == 8
\* line 89: fields[3]
PATIENT_ID_FIELD == 3
\* line 92: len(fields) > 25
MIN_FT1_FIELDS == 25
\* line 94: fields[24]
PROCEDURE_CODE_FIELD == 24

\* the message type read one field further on
MessageTypeOfNext(fields, current) ==
    IF Len(fields) > MESSAGE_TYPE_FIELD + 1 THEN fields[MESSAGE_TYPE_FIELD + 2] ELSE current

\* lines 83-85: fields[8] of an 'MSH|' line of more than 8 fields
MessageTypeOf(fields, current) ==
    IF Len(fields) > MESSAGE_TYPE_FIELD THEN fields[MESSAGE_TYPE_FIELD + 1] ELSE current

\* lines 82-94: the body of the loop over the lines, applied to line
InfoStep(acc, line) ==
    CHOOSE r \in
        { IF StartsWith(line, STR_MSH_LINE)
          THEN [acc EXCEPT !.message_type = MessageTypeOf(fields, acc.message_type)]
          ELSE IF StartsWith(line, STR_PID_LINE)
          THEN IF Len(fields) > PATIENT_ID_FIELD
               THEN [acc EXCEPT !.patient_id = fields[PATIENT_ID_FIELD + 1]]
               ELSE acc
          ELSE IF StartsWith(line, STR_FT1_LINE) /\ Len(fields) > MIN_FT1_FIELDS
          THEN [acc EXCEPT !.codes = Append(acc.codes, fields[PROCEDURE_CODE_FIELD + 1])]
          ELSE acc
          : fields \in {PySplit(line, PIPE)} } : TRUE

\* lines 81-94: the loop over the lines
RECURSIVE InfoOver(_, _)
InfoOver(lines, acc) ==
    IF lines = <<>> THEN acc
    ELSE InfoOver(Tail(lines), InfoStep(acc, Head(lines)))

\* extract_message_info(message)
extract_message_info(message) ==
    InfoOver(PySplit(message, CR),
             [message_type |-> STR_INFO_UNKNOWN, patient_id |-> STR_INFO_UNKNOWN,
              codes |-> <<>>])

(***************************************************************************)
(* State.                                                                  *)
(***************************************************************************)
VARIABLES
    \* the network
    conn,         \* "none" | "pending" (connected, not yet accepted) | "accepted"
    c2s,          \* bytes written towards the receiver and not yet read by it
    c2sFin,       \* "open" | "fin": the client side has closed its socket
    s2c,          \* bytes written towards the sender and not yet read by it
    s2cFin,       \* "open" | "fin" (the serving side has closed its socket) |
                  \* "idle" (it stays open and writes nothing more) | "rst" (reset)
    faults,       \* whether transport and storage operations may fail
    \* the receiver, handle_client and main of server.py
    rpc,          \* "accept" | "recv" | "loop" | "save" | "ack"
    buffer,       \* handle_client's buffer
    hl7_message,  \* the payload being handled
    extracted,    \* payloads extracted in this session, in order
    stored,       \* payloads save_message wrote in this session
    acks,         \* acknowledgments conn.send wrote in this session
    nReads,       \* reads of this session that returned data: 0, 1, 2 or 3 for more
    bufBase,      \* offset in the session's byte stream of buffer[0]
    spans,        \* per extracted payload, <<from, to>>: its offsets in the stream
    wireIn,       \* every byte the client writes in this session
    closes,       \* conn.close() calls of this session
    lastEnd,      \* how this session ended: "none" | "eof" | "recv_error" |
                  \* "save_error" | "handler_error" | "send_error"
    \* create_ack called on its own
    ackPc,        \* "idle" | "call" | "done"
    ackFields,    \* the '|'-separated fields the first line is made of
    ackTail,      \* what follows the first line in the message
    ackMessage,   \* the argument of create_ack
    ackClock,     \* what the clock reads during the call
    ackControl,   \* the control fields extracted (lines 31-47)
    ackResult,    \* what create_ack returned or raised
    msgInfo,      \* what extract_message_info returned, <<>> before the call
    \* the sender, main and send_hl7_message of sender.py
    spc,          \* "connect" | "send" | "recv" | "done"
    msgs,         \* the messages main sends, in order
    mi,           \* the index in msgs of the message being sent
    sock,         \* the socket of the current call: "none" | "open" | "closed"
    response,     \* send_hl7_message's response
    results,      \* per call that returned: why, and what it returned
    received,     \* the bytes the call that last returned had read
    \* validate_fhir of tools/validation.py
    toolPc,       \* "idle" | "call" | "done"
    bundle,       \* the argument of the call
    fhir_resources, \* what importing and running fhir.resources does in this call
    validation,   \* what validate_fhir returned or raised
    \* the sender's wait for the response
    elapsed,      \* seconds since the sender began to wait for the response
    \* the listen queue of the receiver (server.listen(5))
    backlog,      \* the streams of the clients connected and not yet accepted
    \* the transformation graph of agent/graph.py and its state (agent/state.py)
    graphPc,      \* the node to run next, "idle", "END" or "raised"
    fhir_bundle,  \* state["fhir_bundle"]
    validation_results, \* state["validation_results"]
    is_valid,     \* state["is_valid"]
    error_count,  \* state["error_count"]
    max_retries,  \* state["max_retries"]
    nValidate,    \* the runs of validate_fhir_node
    nCorrect,     \* the runs of self_correct_node
    gaveUp        \* self_correct_node has taken its "Max retries exceeded" branch

netVars == <<conn, c2s, c2sFin, s2c, s2cFin, faults>>

recvVars ==
    <<rpc, buffer, hl7_message, extracted, stored, acks, nReads, bufBase, spans,
      wireIn, closes, lastEnd>>

ackVars == <<ackPc, ackFields, ackTail, ackMessage, ackClock, ackControl, ackResult, msgInfo>>

senderVars == <<spc, msgs, mi, sock, response, results, received>>

toolVars == <<toolPc, bundle, fhir_resources, validation>>

timeVars == <<elapsed>>

queueVars == <<backlog>>

graphVars ==
    <<graphPc, fhir_bundle, validation_results, is_valid, error_count, max_retries,
      nValidate, nCorrect, gaveUp>>

\* what only the specifications of the response clock, of the listen queue
\* and of the transformation graph change
otherVars == <<timeVars, queueVars, graphVars>>

\* what no step of the receiver or of its raw client changes
notReceiver == <<ackVars, senderVars, toolVars, otherVars>>

vars == <<netVars, recvVars, ackVars, senderVars, toolVars, otherVars>>

(***************************************************************************)
(* Framing (sender.py line 32, server.py line 57).                         *)
(***************************************************************************)
\* MLLP_START + message.encode() + MLLP_END
Frame(message) == MLLP_START \o Utf8Encode(message) \o MLLP_END

(***************************************************************************)
(* The byte streams a raw client writes.                                   *)
(***************************************************************************)
\* 0x0B, 0x1C, 0x0D and 'A'
StreamBytes == {11, 28, 13, 65}

RECURSIVE SeqsUpTo(_, _)
SeqsUpTo(S, n) ==
    IF n = 0 THEN {<<>>}
    ELSE LET shorter == SeqsUpTo(S, n - 1)
         IN  shorter \cup {Append(s, x) : s \in {t \in shorter : Len(t) = n - 1}, x \in S}

GarbageStreams == SeqsUpTo(StreamBytes, MaxStreamLen)

\* "|".join(fields)
RECURSIVE JoinFields(_)
JoinFields(fields) ==
    IF fields = <<>> THEN <<>>
    ELSE IF Len(fields) = 1 THEN fields[1]
    ELSE fields[1] \o <<PIPE>> \o JoinFields(Tail(fields))

\* "MSH|^|A|B|C|D|1||T|X|P|2\rPID|7\r"
SampleMsgX ==
    JoinFields(<< <<77, 83, 72>>, <<94>>, <<65>>, <<66>>, <<67>>, <<68>>, <<49>>, <<>>,
                  <<84>>, <<88>>, <<80>>, <<50>> >>)
        \o <<CR, 80, 73, 68, PIPE, 55, CR>>

\* "MSH|^|é|F|G|H|1||T|Y": ten fields, a two-byte character, no final '\r'
SampleMsgY ==
    JoinFields(<< <<77, 83, 72>>, <<94>>, <<233>>, <<70>>, <<71>>, <<72>>, <<49>>, <<>>,
                  <<84>>, <<89>> >>)

\* "MSH|^|A|B|C|D|1||T": nine fields
SampleMsgShort ==
    JoinFields(<< <<77, 83, 72>>, <<94>>, <<65>>, <<66>>, <<67>>, <<68>>, <<49>>, <<>>,
                  <<84>> >>)

SampleMsgs == {SampleMsgX, SampleMsgY, SampleMsgShort}

\* bytes in front of the first start marker, an end marker among them
NoisyStream == <<28, 13, 65>> \o Frame(SampleMsgShort)

\* one frame, two frames in a row, and frames whose payload is not valid UTF-8
SampleStreams ==
    {Frame(a) : a \in SampleMsgs}
        \cup {Frame(a) \o Frame(b) : a \in SampleMsgs, b \in SampleMsgs}
        \cup { MLLP_START \o <<195>> \o MLLP_END,
               MLLP_START \o <<65, 169, 195, 169>> \o MLLP_END }
        \cup {NoisyStream}

Streams == GarbageStreams \cup SampleStreams

(***************************************************************************)
(* The receiver: main and handle_client of server.py.                      *)
(***************************************************************************)
\* the loop entered as soon as a start marker is there
FrameAvailableStartOnly(buf) == Contains(buf, MLLP_START)

\* line 114: MLLP_START in buffer and MLLP_END in buffer
FrameAvailable(buf) == Contains(buf, MLLP_START) /\ Contains(buf, MLLP_END)

\* the frame taken to begin at the head of the buffer
StartIdxAssumedZero(buf) == 0

\* line 115
StartIdx(buf) == PyIndex(buf, MLLP_START)

\* the end taken at the first 0x1C byte, whatever follows it
EndIdxLoneByte(buf) == PyIndex(buf, <<MLLP_END[1]>>) + Len(MLLP_END)

\* line 116
EndIdx(buf) == PyIndex(buf, MLLP_END) + Len(MLLP_END)

\* line 119: buffer[start_idx:end_idx]
MllpMessage(buf) == PySlice(buf, StartIdx(buf), EndIdx(buf))

\* the buffer left as it is after one message
BufferAfterKept(buf) == buf

\* the buffer emptied after one message
BufferAfterCleared(buf) == <<>>

\* line 120: buffer[end_idx:]
BufferAfter(buf) == PyTail(buf, EndIdx(buf))

\* only one byte of the end marker stripped
StripFramingOneByte(mllp_message) == Utf8DecodeReplace(PySlice(mllp_message, 1, -1))

\* line 123: mllp_message[1:-2].decode('utf-8', errors='replace')
StripFraming(mllp_message) == Utf8DecodeReplace(PySlice(mllp_message, 1, -2))

\* the listener stopping with the session
CloseSessionStops(how) ==
    /\ rpc' = "stopped"
    /\ closes' = closes + 1
    /\ lastEnd' = how
    /\ s2cFin' = "fin"
    /\ conn' = "none"
    /\ buffer' = <<>>
    /\ hl7_message' = <<>>

\* the session closed with its buffer kept for the next one
CloseSessionKeepsBuffer(how) ==
    /\ rpc' = "accept"
    /\ closes' = closes + 1
    /\ lastEnd' = how
    /\ s2cFin' = "fin"
    /\ conn' = "none"
    /\ buffer' = buffer
    /\ hl7_message' = <<>>

\* the finally clause of handle_client, then back to accept in main
CloseSession(how) ==
    /\ rpc' = "accept"
    /\ closes' = closes + 1
    /\ lastEnd' = how
    /\ s2cFin' = "fin"
    /\ conn' = "none"
    /\ buffer' = <<>>
    /\ hl7_message' = <<>>

\* main, lines 165-167: accept the next connection and enter handle_client
Accept ==
    /\ rpc = "accept"
    /\ conn = "pending"
    /\ conn' = "accepted"
    /\ rpc' = "recv"
    /\ buffer' = <<>>
    /\ UNCHANGED <<c2s, c2sFin, s2c, s2cFin, faults, hl7_message, extracted, stored,
                   acks, nReads, bufBase, spans, wireIn, closes, lastEnd>>
    /\ UNCHANGED notReceiver

\* a read that replaces the buffer instead of extending it
RecvDataOverwrites ==
    /\ rpc = "recv"
    /\ c2s # <<>>
    /\ \E k \in 1..Min(Len(c2s), RECV_SIZE) :
          /\ buffer' = SubSeq(c2s, 1, k)
          /\ c2s' = SubSeq(c2s, k + 1, Len(c2s))
    /\ nReads' = IF nReads < 3 THEN nReads + 1 ELSE nReads
    /\ rpc' = "loop"
    /\ UNCHANGED <<conn, c2sFin, s2c, s2cFin, faults, hl7_message, extracted, stored,
                   acks, bufBase, spans, wireIn, closes, lastEnd>>
    /\ UNCHANGED notReceiver

\* lines 107-111: recv returns 1..4096 of the bytes in flight; buffer += data
RecvData ==
    /\ rpc = "recv"
    /\ c2s # <<>>
    /\ \E k \in 1..Min(Len(c2s), RECV_SIZE) :
          /\ buffer' = buffer \o SubSeq(c2s, 1, k)
          /\ c2s' = SubSeq(c2s, k + 1, Len(c2s))
    /\ nReads' = IF nReads < 3 THEN nReads + 1 ELSE nReads
    /\ rpc' = "loop"
    /\ UNCHANGED <<conn, c2sFin, s2c, s2cFin, faults, hl7_message, extracted, stored,
                   acks, bufBase, spans, wireIn, closes, lastEnd>>
    /\ UNCHANGED notReceiver

\* lines 107-109, 146-147: recv returns b'' once the peer has closed; break
RecvEof ==
    /\ rpc = "recv"
    /\ c2s = <<>>
    /\ c2sFin = "fin"
    /\ CloseSession("eof")
    /\ UNCHANGED <<c2s, c2sFin, s2c, faults, extracted, stored, acks, nReads, bufBase,
                   spans, wireIn>>
    /\ UNCHANGED notReceiver

\* lines 107, 144-147: recv raises (connection reset); logged, socket closed
RecvError ==
    /\ rpc = "recv"
    /\ faults
    /\ CloseSession("recv_error")
    /\ UNCHANGED <<c2s, c2sFin, s2c, faults, extracted, stored, acks, nReads, bufBase,
                   spans, wireIn>>
    /\ UNCHANGED notReceiver

\* lines 114-133: one pass of the while loop up to save_message
Extract ==
    /\ rpc = "loop"
    /\ FrameAvailable(buffer)
    /\ hl7_message' = StripFraming(MllpMessage(buffer))
    /\ buffer' = BufferAfter(buffer)
    /\ extracted' = Append(extracted, StripFraming(MllpMessage(buffer)))
    /\ spans' = Append(spans, <<bufBase + StartIdx(buffer) + 1,
                                Max(bufBase + EndIdx(buffer) - Len(MLLP_END),
                                    bufBase + StartIdx(buffer) + 1)>>)
    /\ bufBase' = bufBase + EndIdx(buffer)
    /\ rpc' = "save"
    /\ UNCHANGED <<netVars, stored, acks, nReads, wireIn, closes, lastEnd>>
    /\ UNCHANGED notReceiver

\* line 114: the while condition is false, back to recv
LoopExit ==
    /\ rpc = "loop"
    /\ ~FrameAvailable(buffer)
    /\ rpc' = "recv"
    /\ UNCHANGED <<netVars, buffer, hl7_message, extracted, stored, acks, nReads,
                   bufBase, spans, wireIn, closes, lastEnd>>
    /\ UNCHANGED notReceiver

\* line 136: save_message(hl7_message) writes the file
SaveOk ==
    /\ rpc = "save"
    /\ stored' = Append(stored, hl7_message)
    /\ rpc' = "ack"
    /\ UNCHANGED <<netVars, buffer, hl7_message, extracted, acks, nReads, bufBase,
                   spans, wireIn, closes, lastEnd>>
    /\ UNCHANGED notReceiver

\* a failure of save_message that is logged, the acknowledgment still written
SaveFailAcknowledged ==
    /\ rpc = "save"
    /\ faults
    /\ rpc' = "ack"
    /\ UNCHANGED <<netVars, buffer, hl7_message, extracted, stored, acks, nReads, bufBase,
                   spans, wireIn, closes, lastEnd>>
    /\ UNCHANGED notReceiver

\* lines 136, 144-147: save_message raises (open or write fails); the exception
\* leaves the loops, is logged, and the socket is closed
SaveFail ==
    /\ rpc = "save"
    /\ faults
    /\ CloseSession("save_error")
    /\ UNCHANGED <<c2s, c2sFin, s2c, faults, extracted, stored, acks, nReads, bufBase,
                   spans, wireIn>>
    /\ UNCHANGED notReceiver

\* the acknowledgment put off: the loop goes on without writing it
SendAckDeferred ==
    /\ rpc = "ack"
    /\ rpc' = "loop"
    /\ UNCHANGED <<netVars, buffer, hl7_message, extracted, stored, acks, nReads,
                   bufBase, spans, wireIn, closes, lastEnd>>
    /\ UNCHANGED notReceiver

\* lines 139-140: ack = create_ack(hl7_message); conn.send(ack)
SendAckOk ==
    /\ rpc = "ack"
    /\ \E ts \in SessionTimestamps :
          LET ack == create_ack(hl7_message, ts)
          IN  IF ack.exc = "none"
              THEN /\ acks' = Append(acks, ack.value)
                   /\ s2c' = s2c \o ack.value
                   /\ rpc' = "loop"
                   /\ UNCHANGED <<conn, s2cFin, closes, lastEnd, buffer, hl7_message>>
              ELSE /\ CloseSession("handler_error")
                   /\ UNCHANGED <<acks, s2c>>
    /\ UNCHANGED <<c2s, c2sFin, faults, extracted, stored, nReads, bufBase, spans,
                   wireIn>>
    /\ UNCHANGED notReceiver

\* conn.send raising without ending the session: the loop goes on
SendAckFailIgnored ==
    /\ rpc = "ack"
    /\ faults
    /\ rpc' = "loop"
    /\ lastEnd' = "send_error"
    /\ UNCHANGED <<netVars, buffer, hl7_message, extracted, stored, acks, nReads,
                   bufBase, spans, wireIn, closes>>
    /\ UNCHANGED notReceiver

\* lines 140, 144-147: conn.send raises (peer gone); logged, socket closed
SendAckFail ==
    /\ rpc = "ack"
    /\ faults
    /\ CloseSession("send_error")
    /\ UNCHANGED <<c2s, c2sFin, s2c, faults, extracted, stored, acks, nReads, bufBase,
                   spans, wireIn>>
    /\ UNCHANGED notReceiver

ReceiverNext ==
    \/ Accept
    \/ RecvData
    \/ RecvEof
    \/ RecvError
    \/ Extract
    \/ LoopExit
    \/ SaveOk
    \/ SaveFail
    \/ SendAckOk
    \/ SendAckFail

(***************************************************************************)
(* A raw client of the receiver: connects, writes a byte stream, closes.   *)
(***************************************************************************)
\* nothing is recorded of a session
NoSessionRecord ==
    /\ extracted = <<>>
    /\ stored = <<>>
    /\ acks = <<>>
    /\ nReads = 0
    /\ bufBase = 0
    /\ spans = <<>>
    /\ closes = 0
    /\ wireIn = <<>>
    /\ lastEnd = "none"

\* what was observed of the previous session is dropped
NewSessionRecord ==
    /\ extracted' = <<>>
    /\ stored' = <<>>
    /\ acks' = <<>>
    /\ nReads' = 0
    /\ bufBase' = 0
    /\ spans' = <<>>
    /\ closes' = 0

\* a client connects and writes one of streams
ClientConnect(streams) ==
    /\ conn = "none"
    /\ rpc = "accept"
    /\ NoSessionRecord
    /\ \E stream \in streams :
          /\ c2s' = stream
          /\ wireIn' = stream
    /\ conn' = "pending"
    /\ c2sFin' = "open"
    /\ s2c' = <<>>
    /\ s2cFin' = "open"
    /\ UNCHANGED <<faults, rpc, buffer, hl7_message, extracted, stored, acks, nReads,
                   bufBase, spans, closes, lastEnd>>
    /\ UNCHANGED notReceiver

RawClientConnect == ClientConnect(Streams)

\* a client connects and writes frames
FrameClientConnect == ClientConnect(SampleStreams)

\* between two connections: the record of the finished session is dropped
ForgetSession ==
    /\ conn = "none"
    /\ rpc = "accept"
    /\ sock # "open"
    /\ ~NoSessionRecord
    /\ NewSessionRecord
    /\ wireIn' = <<>>
    /\ c2s' = <<>>
    /\ s2c' = <<>>
    /\ lastEnd' = "none"
    /\ UNCHANGED <<conn, c2sFin, s2cFin, faults, rpc, buffer, hl7_message>>
    /\ UNCHANGED notReceiver

\* the client closes its socket after the receiver has read what it wrote
RawClientClose ==
    /\ conn = "accepted"
    /\ c2sFin = "open"
    /\ c2s = <<>>
    /\ rpc = "recv"
    /\ c2sFin' = "fin"
    /\ UNCHANGED <<conn, c2s, s2c, s2cFin, faults, recvVars>>
    /\ UNCHANGED notReceiver

RecvInit ==
    /\ conn = "none"
    /\ c2s = <<>>
    /\ c2sFin = "open"
    /\ s2c = <<>>
    /\ s2cFin = "open"
    /\ rpc = "accept"
    /\ buffer = <<>>
    /\ hl7_message = <<>>
    /\ extracted = <<>>
    /\ stored = <<>>
    /\ acks = <<>>
    /\ nReads = 0
    /\ bufBase = 0
    /\ spans = <<>>
    /\ wireIn = <<>>
    /\ closes = 0
    /\ lastEnd = "none"

\* create_ack is not being called on its own
AckIdle ==
    /\ ackPc = "idle"
    /\ ackFields = <<>>
    /\ ackTail = <<>>
    /\ ackMessage = <<>>
    /\ ackClock = <<>>
    /\ ackControl = <<>>
    /\ ackResult = <<>>
    /\ msgInfo = <<>>

\* no call of validate_fhir is made
ToolIdle ==
    /\ toolPc = "idle"
    /\ bundle = <<>>
    /\ fhir_resources = "missing"
    /\ validation = <<>>

\* the wait for a response has not begun
TimeIdle == elapsed = 0

\* no client waits in the listen queue
QueueIdle == backlog = <<>>

\* no run of the transformation graph is made
GraphIdle ==
    /\ graphPc = "idle"
    /\ fhir_bundle = <<>>
    /\ validation_results = <<>>
    /\ is_valid = FALSE
    /\ error_count = 0
    /\ max_retries = 0
    /\ nValidate = 0
    /\ nCorrect = 0
    /\ gaveUp = FALSE

OtherIdle == TimeIdle /\ QueueIdle /\ GraphIdle

(***************************************************************************)
(* The sender: main and send_hl7_message of sender.py.                     *)
(***************************************************************************)
\* "No response received"
STR_NO_RESPONSE ==
    <<78, 111, 32, 114, 101, 115, 112, 111, 110, 115, 101, 32, 114, 101, 99, 101, 105,
      118, 101, 100>>

\* "Connection timed out"
STR_TIMED_OUT ==
    <<67, 111, 110, 110, 101, 99, 116, 105, 111, 110, 32, 116, 105, 109, 101, 100, 32,
      111, 117, 116>>

\* "Connection refused - is the server running?"
STR_REFUSED ==
    <<67, 111, 110, 110, 101, 99, 116, 105, 111, 110, 32, 114, 101, 102, 117, 115, 101,
      100, 32, 45, 32, 105, 115, 32, 116, 104, 101, 32, 115, 101, 114, 118, 101, 114, 32,
      114, 117, 110, 110, 105, 110, 103, 63>>

\* "Error: "
STR_ERROR_PREFIX == <<69, 114, 114, 111, 114, 58, 32>>

\* str(e) of the OSErrors a call meets: "[Errno 113] No route to host",
\* "[Errno 32] Broken pipe", "[Errno 104] Connection reset by peer"
STR_NO_ROUTE ==
    <<91, 69, 114, 114, 110, 111, 32, 49, 49, 51, 93, 32, 78, 111, 32, 114, 111, 117, 116,
      101, 32, 116, 111, 32, 104, 111, 115, 116>>

STR_BROKEN_PIPE ==
    <<91, 69, 114, 114, 110, 111, 32, 51, 50, 93, 32, 66, 114, 111, 107, 101, 110, 32,
      112, 105, 112, 101>>

STR_RESET ==
    <<91, 69, 114, 114, 110, 111, 32, 49, 48, 52, 93, 32, 67, 111, 110, 110, 101, 99, 116,
      105, 111, 110, 32, 114, 101, 115, 101, 116, 32, 98, 121, 32, 112, 101, 101, 114>>

\* the socket left blocking: no read ever times out
ReadNeverTimesOut == FALSE

\* line 35: sock.settimeout(30); a read that blocks past it raises socket.timeout
ReadTimesOut == SOCKET_TIMEOUT > 0

\* the loop never taking a response for complete
ResponseCompleteNever(resp) == FALSE

\* line 51: MLLP_END in response
ResponseComplete(resp) == Contains(resp, MLLP_END)

\* lines 56-57: the markers removed wherever they are, then decoded
StripResponse(resp) ==
    Utf8DecodeReplace(PyRemoveAll(PyRemoveAll(resp, MLLP_START), MLLP_END))

\* a return that skips the finally clause: the socket stays open
ReturnSocketOpen(cause, value) ==
    /\ results' = Append(results, [cause |-> cause, value |-> value])
    /\ received' = response
    /\ sock' = sock
    /\ response' = <<>>
    /\ mi' = mi + 1
    /\ spc' = IF mi + 1 > Len(msgs) THEN "done" ELSE "connect"
    /\ UNCHANGED msgs

\* a return of send_hl7_message through finally (lines 67-68: sock.close()),
\* then main's loop (lines 112-123) moves to the next message
Return(cause, value) ==
    /\ results' = Append(results, [cause |-> cause, value |-> value])
    /\ received' = response
    /\ sock' = "closed"
    /\ response' = <<>>
    /\ mi' = mi + 1
    /\ spc' = IF mi + 1 > Len(msgs) THEN "done" ELSE "connect"
    /\ UNCHANGED msgs

\* lines 34-39: a new socket; connect succeeds once the listener's queue has
\* the connection, before the receiver accepts it
SenderConnectOk ==
    /\ spc = "connect"
    /\ conn = "none"
    /\ NoSessionRecord
    /\ conn' = "pending"
    /\ c2s' = <<>>
    /\ c2sFin' = "open"
    /\ s2c' = <<>>
    /\ s2cFin' = "open"
    /\ sock' = "open"
    /\ response' = <<>>
    /\ received' = <<>>
    /\ spc' = "send"
    /\ UNCHANGED <<faults, recvVars, ackVars, toolVars, otherVars, msgs, mi, results>>

\* lines 39, 61-62: connect blocks past the socket's timeout
SenderConnectTimeout ==
    /\ spc = "connect"
    /\ faults
    /\ ReadTimesOut
    /\ Return("connect_timeout", STR_TIMED_OUT)
    /\ UNCHANGED <<netVars, recvVars, ackVars, toolVars, otherVars>>

\* lines 39, 63-64: nothing listens on the port
SenderConnectRefused ==
    /\ spc = "connect"
    /\ faults
    /\ Return("refused", STR_REFUSED)
    /\ UNCHANGED <<netVars, recvVars, ackVars, toolVars, otherVars>>

\* lines 39, 65-66: connect raises another OSError
SenderConnectError ==
    /\ spc = "connect"
    /\ faults
    /\ Return("connect_error", STR_ERROR_PREFIX \o STR_NO_ROUTE)
    /\ UNCHANGED <<netVars, recvVars, ackVars, toolVars, otherVars>>

\* a sender that writes the next message's frame behind the current one
SenderSendPipelined ==
    /\ spc = "send"
    /\ \E more \in {IF mi < Len(msgs) THEN Frame(msgs[mi + 1]) ELSE Frame(msgs[mi])} :
          /\ c2s' = c2s \o Frame(msgs[mi]) \o more
          /\ wireIn' = wireIn \o Frame(msgs[mi]) \o more
    /\ spc' = "recv"
    /\ UNCHANGED <<conn, c2sFin, s2c, s2cFin, faults, rpc, buffer, hl7_message,
                   extracted, stored, acks, nReads, bufBase, spans, closes, lastEnd,
                   ackVars, toolVars, otherVars, msgs, mi, sock, response, results, received>>

\* line 42: sock.send(mllp_message) takes the whole frame
SenderSendOk ==
    /\ spc = "send"
    /\ c2s' = c2s \o Frame(msgs[mi])
    /\ wireIn' = wireIn \o Frame(msgs[mi])
    /\ spc' = "recv"
    /\ UNCHANGED <<conn, c2sFin, s2c, s2cFin, faults, rpc, buffer, hl7_message,
                   extracted, stored, acks, nReads, bufBase, spans, closes, lastEnd,
                   ackVars, toolVars, otherVars, msgs, mi, sock, response, results, received>>

\* how many bytes a short write of an n-byte frame takes: the fewest, the most
ShortSends(n) == {1, n - 1}

\* line 42: sock.send takes only the first k bytes (the send buffer is full);
\* its return value is not looked at
SenderSendShort ==
    /\ spc = "send"
    /\ faults
    /\ \E k \in ShortSends(Len(Frame(msgs[mi]))) :
          /\ c2s' = c2s \o SubSeq(Frame(msgs[mi]), 1, k)
          /\ wireIn' = wireIn \o SubSeq(Frame(msgs[mi]), 1, k)
    /\ spc' = "recv"
    /\ UNCHANGED <<conn, c2sFin, s2c, s2cFin, faults, rpc, buffer, hl7_message,
                   extracted, stored, acks, nReads, bufBase, spans, closes, lastEnd,
                   ackVars, toolVars, otherVars, msgs, mi, sock, response, results, received>>

\* lines 42, 61-66: sock.send times out or raises
SenderSendFail ==
    /\ spc = "send"
    /\ faults
    /\ \/ ReadTimesOut /\ Return("send_timeout", STR_TIMED_OUT)
       \/ Return("send_error", STR_ERROR_PREFIX \o STR_BROKEN_PIPE)
    /\ c2sFin' = "fin"
    /\ UNCHANGED <<conn, c2s, s2c, s2cFin, faults, recvVars, ackVars, toolVars, otherVars>>

\* what sock.recv(4096) may return of n bytes in flight: 1..min(n, 4096) bytes,
\* of which the sizes up to MaxRespLen and the largest are followed
ReadSizes(n) ==
    {k \in 1..Min(n, RECV_SIZE) : k <= MaxRespLen \/ k = Min(n, RECV_SIZE)}

\* lines 46-57: recv returns some of the bytes in flight; with an end marker
\* now in response the loop ends and the stripped response is returned
SenderRecvData ==
    /\ spc = "recv"
    /\ s2c # <<>>
    /\ \E k \in ReadSizes(Len(s2c)) :
          \E resp \in {response \o SubSeq(s2c, 1, k)} :
              /\ s2c' = SubSeq(s2c, k + 1, Len(s2c))
              /\ IF ResponseComplete(resp)
                 THEN /\ results' = Append(results, [cause |-> "response",
                                                     value |-> StripResponse(resp)])
                      /\ received' = resp
                      /\ sock' = "closed"
                      /\ response' = <<>>
                      /\ mi' = mi + 1
                      /\ spc' = IF mi + 1 > Len(msgs) THEN "done" ELSE "connect"
                      /\ c2sFin' = "fin"
                 ELSE /\ response' = resp
                      /\ UNCHANGED <<results, received, sock, mi, spc, c2sFin>>
    /\ UNCHANGED <<conn, c2s, s2cFin, faults, recvVars, ackVars, toolVars, otherVars, msgs>>

\* lines 46-49, 55-59: recv returns b'' (the peer has closed): what was read,
\* stripped, is returned, or "No response received" when nothing was read
SenderRecvEof ==
    /\ spc = "recv"
    /\ s2c = <<>>
    /\ s2cFin = "fin"
    /\ IF response # <<>>
       THEN Return("eof_partial", StripResponse(response))
       ELSE Return("eof_empty", STR_NO_RESPONSE)
    /\ c2sFin' = "fin"
    /\ UNCHANGED <<conn, c2s, s2c, s2cFin, faults, recvVars, ackVars, toolVars, otherVars>>

\* lines 46, 61-62: no byte arrives within the socket's timeout
SenderRecvTimeout ==
    /\ spc = "recv"
    /\ s2c = <<>>
    /\ s2cFin = "idle" \/ (s2cFin = "open" /\ faults)
    /\ ReadTimesOut
    /\ Return("recv_timeout", STR_TIMED_OUT)
    /\ c2sFin' = "fin"
    /\ UNCHANGED <<conn, c2s, s2c, s2cFin, faults, recvVars, ackVars, toolVars, otherVars>>

\* lines 46, 65-66: recv raises ConnectionResetError
SenderRecvError ==
    /\ spc = "recv"
    /\ s2c = <<>>
    /\ s2cFin = "rst"
    /\ Return("recv_error", STR_ERROR_PREFIX \o STR_RESET)
    /\ c2sFin' = "fin"
    /\ UNCHANGED <<conn, c2s, s2c, s2cFin, faults, recvVars, ackVars, toolVars, otherVars>>

SenderNext ==
    \/ SenderConnectOk
    \/ SenderConnectTimeout
    \/ SenderConnectRefused
    \/ SenderConnectError
    \/ SenderSendOk
    \/ SenderSendShort
    \/ SenderSendFail
    \/ SenderRecvData
    \/ SenderRecvEof
    \/ SenderRecvTimeout
    \/ SenderRecvError

\* the sender is not running
SenderIdle ==
    /\ spc = "done"
    /\ msgs = <<>>
    /\ mi = 1
    /\ sock = "none"
    /\ response = <<>>
    /\ results = <<>>
    /\ received = <<>>

\* the lists of messages main is given
SenderBatches == { <<SampleMsgShort>>, <<SampleMsgY, SampleMsgX>> }

\* the single messages main is given when a raw peer answers
SingleBatches == { <<SampleMsgX>>, <<SampleMsgY>>, <<SampleMsgShort>> }

\* main about to send the first message of batch
SenderStart(batch) ==
    /\ spc = "connect"
    /\ msgs = batch
    /\ mi = 1
    /\ sock = "none"
    /\ response = <<>>
    /\ results = <<>>
    /\ received = <<>>

(***************************************************************************)
(* The sender and the receiver connected to each other.                    *)
(***************************************************************************)
\* the connection is reset under the sender
TransportReset ==
    /\ faults
    /\ conn = "accepted"
    /\ sock = "open"
    /\ s2cFin = "open"
    /\ s2cFin' = "rst"
    /\ UNCHANGED <<conn, c2s, c2sFin, s2c, faults, recvVars, ackVars, toolVars, otherVars, senderVars>>

InitPair ==
    /\ RecvInit
    /\ AckIdle
    /\ ToolIdle
    /\ OtherIdle
    /\ \E batch \in SenderBatches : SenderStart(batch)
    /\ faults \in BOOLEAN

NextPair ==
    \/ SenderNext
    \/ ReceiverNext
    \/ ForgetSession
    \/ TransportReset

\* the processes run: while some step is possible, a step is taken
SpecPair ==
    /\ InitPair
    /\ [][NextPair]_vars
    /\ WF_vars(NextPair)

(***************************************************************************)
(* The sender connected to a raw peer: it accepts, writes a byte stream,   *)
(* then closes, stays silent or resets.                                    *)
(***************************************************************************)
\* the acknowledgment of SampleMsgX
SampleAck ==
    create_ack(SampleMsgX, CHOOSE ts \in SessionTimestamps : TRUE).value

\* an end-marker sequence inside an end-marker sequence
NestedEndStream == <<28, 28, 13, 13>>

PeerStreams ==
    SeqsUpTo(StreamBytes, MaxRespLen)
        \cup {SampleAck, SubSeq(SampleAck, 1, Len(SampleAck) - 1), SampleAck \o SampleAck}
        \cup {NestedEndStream}

RawPeerAccept ==
    /\ conn = "pending"
    /\ \E stream \in PeerStreams, end \in {"fin", "idle", "rst"} :
          /\ s2c' = stream
          /\ s2cFin' = end
    /\ conn' = "accepted"
    /\ UNCHANGED <<c2s, c2sFin, faults, recvVars, ackVars, toolVars, otherVars, senderVars>>

\* the peer is done with the connection the sender has closed
RawPeerClose ==
    /\ conn \in {"pending", "accepted"}
    /\ sock = "closed"
    /\ conn' = "none"
    /\ c2s' = <<>>
    /\ s2c' = <<>>
    /\ s2cFin' = "fin"
    /\ wireIn' = <<>>
    /\ UNCHANGED <<c2sFin, faults, rpc, buffer, hl7_message, extracted, stored, acks,
                   nReads, bufBase, spans, closes, lastEnd, ackVars, toolVars, otherVars, senderVars>>

InitSend ==
    /\ RecvInit
    /\ AckIdle
    /\ ToolIdle
    /\ OtherIdle
    /\ \E batch \in SingleBatches : SenderStart(batch)
    /\ faults \in BOOLEAN

NextSend ==
    \/ SenderNext
    \/ RawPeerAccept
    \/ RawPeerClose

\* the sender runs: a step of it that stays possible is taken
SpecSend ==
    /\ InitSend
    /\ [][NextSend]_vars
    /\ WF_vars(SenderNext)

(***************************************************************************)
(* The sender's wait on the clock: a peer that stays connected and writes  *)
(* its bytes one at a time, each before a read would time out.             *)
(***************************************************************************)
MaxTrickle == 3

\* the seconds between two bytes of the peer: less than the socket's timeout
TrickleGap == SOCKET_TIMEOUT - 1

\* the peer accepts the connection and writes nothing yet
OpenPeerAccept ==
    /\ conn = "pending"
    /\ conn' = "accepted"
    /\ s2c' = <<>>
    /\ s2cFin' = "open"
    /\ UNCHANGED <<c2s, c2sFin, faults, recvVars, ackVars, toolVars, otherVars, senderVars>>

\* the sender blocked in sock.recv (line 46) with nothing to read
SenderWaits ==
    /\ spc = "recv"
    /\ sock = "open"
    /\ conn = "accepted"
    /\ s2cFin = "open"
    /\ s2c = <<>>

\* TrickleGap seconds pass, then the peer writes one byte
PeerTrickle ==
    /\ SenderWaits
    /\ Len(response) < MaxTrickle
    /\ \E b \in StreamBytes : s2c' = <<b>>
    /\ elapsed' = elapsed + TrickleGap
    /\ UNCHANGED <<conn, c2s, c2sFin, s2cFin, faults, recvVars, ackVars, toolVars,
                   queueVars, graphVars, senderVars>>

\* the socket's timeout passes without a byte from the peer
PeerSilent ==
    /\ SenderWaits
    /\ s2cFin' = "idle"
    /\ elapsed' = elapsed + SOCKET_TIMEOUT
    /\ UNCHANGED <<conn, c2s, c2sFin, s2c, faults, recvVars, ackVars, toolVars,
                   queueVars, graphVars, senderVars>>

InitTrickle ==
    /\ RecvInit
    /\ AckIdle
    /\ ToolIdle
    /\ OtherIdle
    /\ \E batch \in SingleBatches : SenderStart(batch)
    /\ faults = FALSE

NextTrickle ==
    \/ SenderConnectOk
    \/ SenderSendOk
    \/ SenderRecvData
    \/ SenderRecvTimeout
    \/ OpenPeerAccept
    \/ PeerTrickle
    \/ PeerSilent
    \/ RawPeerClose

SpecTrickle == InitTrickle /\ [][NextTrickle]_vars

\* the receiver served by raw clients, transport and storage faults allowed
InitRecv ==
    /\ RecvInit
    /\ AckIdle
    /\ ToolIdle
    /\ OtherIdle
    /\ SenderIdle
    /\ faults = TRUE

NextRecv ==
    \/ ReceiverNext
    \/ RawClientConnect
    \/ RawClientClose
    \/ ForgetSession

SpecRecv == InitRecv /\ [][NextRecv]_vars

(***************************************************************************)
(* The receiver with clients that connect while a session is open: their   *)
(* connections wait in the listen queue of server.listen(5).               *)
(***************************************************************************)
\* the connections the model lets wait at once
MaxBacklog == 2

\* what the waiting clients have written: a frame "A", a frame "B" and the
\* start of another, a byte that belongs to no frame
QueueStreams == { <<11, 65, 28, 13>>, <<11, 66, 28, 13, 11>>, <<65>> }

\* a client connects and writes its stream; the connection is queued
QueuedConnect ==
    /\ Len(backlog) < MaxBacklog
    /\ \E stream \in QueueStreams : backlog' = Append(backlog, stream)
    /\ UNCHANGED <<netVars, recvVars, ackVars, senderVars, toolVars, timeVars, graphVars>>

\* accept returning while handle_client is still running for another
\* connection
AcceptQueuedEarly ==
    /\ backlog # <<>>
    /\ conn' = "accepted"
    /\ c2s' = Head(backlog)
    /\ wireIn' = Head(backlog)
    /\ backlog' = Tail(backlog)
    /\ c2sFin' = "open"
    /\ s2c' = <<>>
    /\ s2cFin' = "open"
    /\ rpc' = "recv"
    /\ buffer' = <<>>
    /\ NewSessionRecord
    /\ lastEnd' = "none"
    /\ UNCHANGED <<faults, hl7_message, ackVars, senderVars, toolVars, timeVars, graphVars>>

\* main, lines 165-167: server.accept() returns the connection at the head
\* of the queue and handle_client begins a session with an empty buffer
AcceptQueued ==
    /\ rpc = "accept"
    /\ backlog # <<>>
    /\ conn' = "accepted"
    /\ c2s' = Head(backlog)
    /\ wireIn' = Head(backlog)
    /\ backlog' = Tail(backlog)
    /\ c2sFin' = "open"
    /\ s2c' = <<>>
    /\ s2cFin' = "open"
    /\ rpc' = "recv"
    /\ buffer' = <<>>
    /\ NewSessionRecord
    /\ lastEnd' = "none"
    /\ UNCHANGED <<faults, hl7_message, ackVars, senderVars, toolVars, timeVars, graphVars>>

InitQueue ==
    /\ RecvInit
    /\ AckIdle
    /\ ToolIdle
    /\ OtherIdle
    /\ SenderIdle
    /\ faults = TRUE

NextQueue ==
    \/ QueuedConnect
    \/ AcceptQueued
    \/ RecvData
    \/ RecvEof
    \/ RecvError
    \/ Extract
    \/ LoopExit
    \/ SaveOk
    \/ SaveFail
    \/ SendAckOk
    \/ SendAckFail
    \/ RawClientClose

SpecQueue == InitQueue /\ [][NextQueue]_vars

\* the receiver served by clients that send frames, one connection after
\* the other
NextServe ==
    \/ ReceiverNext
    \/ FrameClientConnect
    \/ RawClientClose
    \/ ForgetSession

\* the listener runs and clients keep coming: while some step is possible, a
\* step is taken
SpecServe ==
    /\ InitRecv
    /\ [][NextServe]_vars
    /\ WF_vars(NextServe)

(***************************************************************************)
(* create_ack called on its own, on first lines of 0..MaxAckFields fields. *)
(***************************************************************************)
\* what the k-th field of a first line may hold: the routing fields and the
\* control ID vary ("", "A", "é"; "", "X", "M1"), the others are fixed
FieldChoices(k) ==
    CASE k = 1 -> {<<77, 83, 72>>}
      [] k = 2 -> {<<94, 126, 92, 38>>}
      [] k \in 3..6 -> {<<>>, <<64 + k>>, <<233>>}
      [] k = 7 -> {<<49>>}
      [] k = 8 -> {<<>>}
      [] k = 9 -> {<<84>>}
      [] k = 10 -> {<<>>, <<88>>, <<77, 49>>}
      [] k = 11 -> {<<80>>}
      [] OTHER -> {<<50>>}

\* the first lines of n fields
RECURSIVE FirstLines(_)
FirstLines(n) ==
    IF n = 0 THEN {<<>>}
    ELSE {Append(fs, f) : fs \in FirstLines(n - 1), f \in FieldChoices(n)}

\* what may follow the first line: nothing, "\r", "\rPID|7\r", and a second
\* line of ten fields "\rMSH|1|2|3|4|5|6|7|8|9"
MessageTails ==
    { <<>>,
      <<CR>>,
      <<CR, 80, 73, 68, PIPE, 55, CR>>,
      <<CR, 77, 83, 72, PIPE, 49, PIPE, 50, PIPE, 51, PIPE, 52, PIPE, 53, PIPE, 54,
        PIPE, 55, PIPE, 56, PIPE, 57>> }

InitAck ==
    /\ RecvInit
    /\ SenderIdle
    /\ ToolIdle
    /\ OtherIdle
    /\ faults = FALSE
    /\ ackPc = "call"
    /\ \E n \in 0..MaxAckFields :
          \E fs \in FirstLines(n), tail \in MessageTails :
             /\ ackFields = fs
             /\ ackTail = tail
             /\ ackMessage = JoinFields(fs) \o tail
    /\ ackClock \in Timestamps
    /\ ackControl = <<>>
    /\ ackResult = <<>>
    /\ msgInfo = <<>>

\* create_ack(message)
CallCreateAck ==
    /\ ackPc = "call"
    /\ ackControl' = ControlFields(ackMessage)
    /\ ackResult' = create_ack(ackMessage, ackClock)
    /\ ackPc' = "done"
    /\ UNCHANGED <<ackFields, ackTail, ackMessage, ackClock, msgInfo, netVars, recvVars,
                   senderVars, toolVars, otherVars>>

\* extract_message_info(message)
CallExtractMessageInfo ==
    /\ ackPc # "idle"
    /\ msgInfo = <<>>
    /\ msgInfo' = extract_message_info(ackMessage)
    /\ UNCHANGED <<ackPc, ackFields, ackTail, ackMessage, ackClock, ackControl, ackResult,
                   netVars, recvVars, senderVars, toolVars, otherVars>>

NextAck == CallCreateAck \/ CallExtractMessageInfo

SpecAck == InitAck /\ [][NextAck]_vars

(***************************************************************************)
(* validate_fhir of hl7_fhir_mapping_agent/src/tools/validation.py.        *)
(* A JSON value is a record of its Python type t and its value v; the      *)
(* value of a dict is the sequence of its <<key, value>> pairs in          *)
(* insertion order, the value of a list the sequence of its items.         *)
(***************************************************************************)
MaxEntries == 2

JNone == [t |-> "null", v |-> <<>>]

JNum(n) == [t |-> "num", v |-> n]

JStr(s) == [t |-> "str", v |-> s]

JList(items) == [t |-> "list", v |-> items]

JDict(pairs) == [t |-> "dict", v |-> pairs]

\* isinstance(x, dict)
IsDict(x) == x.t = "dict"

\* key in d
HasKey(d, key) == \E i \in 1..Len(d.v) : d.v[i][1] = key

\* d.get(key, default)
Get(d, key, default) ==
    IF HasKey(d, key)
    THEN d.v[CHOOSE i \in 1..Len(d.v) : d.v[i][1] = key][2]
    ELSE default

\* bool(x)
Truthy(x) ==
    CASE x.t = "null" -> FALSE
      [] x.t = "num" -> x.v # 0
      [] x.t = "str" -> x.v # ""
      [] OTHER -> x.v # <<>>

\* x formatted in an f-string, for None, numbers and strings
PyStr(x) ==
    CASE x.t = "null" -> "None"
      [] x.t = "num" -> ToString(x.v)
      [] x.t = "str" -> x.v
      [] OTHER -> "<" \o x.t \o ">"

\* the concatenation of the sequences of a sequence
RECURSIVE Flatten(_)
Flatten(seqs) ==
    IF seqs = <<>> THEN <<>> ELSE Head(seqs) \o Flatten(Tail(seqs))

\* the results of the calls made in a loop: the first exception raised ends
\* the loop, otherwise the values are collected in order
LoopResult(calls) ==
    IF \E i \in 1..Len(calls) : calls[i].exc # "none"
    THEN [exc |-> calls[CHOOSE i \in 1..Len(calls) :
                           /\ calls[i].exc # "none"
                           /\ \A j \in 1..(i - 1) : calls[j].exc = "none"].exc,
          value |-> <<>>]
    ELSE [exc |-> "none", value |-> Flatten([i \in 1..Len(calls) |-> calls[i].value])]

\* the types validate_fhir accepts (line 48)
BUNDLE_TYPES ==
    <<"batch", "transaction", "document", "message", "searchset", "collection",
      "history">>

\* bundle_type in [...]
BundleTypeAllowed(bundle_type) ==
    /\ bundle_type.t = "str"
    /\ \E i \in 1..Len(BUNDLE_TYPES) : BUNDLE_TYPES[i] = bundle_type.v

\* _get_required_fields
_get_required_fields(resource_type) ==
    IF resource_type.t # "str" THEN <<>>
    ELSE CASE resource_type.v = "Patient" -> <<>>
           [] resource_type.v = "Observation" -> <<"status", "code">>
           [] resource_type.v = "Encounter" -> <<"status", "class">>
           [] resource_type.v = "Condition" -> <<"subject">>
           [] resource_type.v = "AllergyIntolerance" -> <<"patient">>
           [] resource_type.v = "DiagnosticReport" -> <<"status", "code">>
           [] resource_type.v = "Procedure" -> <<"status", "subject">>
           [] resource_type.v = "MedicationStatement" -> <<"status", "subject">>
           [] resource_type.v = "Immunization" -> <<"status", "vaccineCode", "patient">>
           [] resource_type.v = "Coverage" -> <<"status", "beneficiary", "payor">>
           [] resource_type.v = "RelatedPerson" -> <<"patient">>
           [] resource_type.v = "MessageHeader" -> <<"source">>
           [] OTHER -> <<>>

\* the errors of the required fields resource lacks (lines 111-120; no name
\* of the table holds "|")
MissingFields(resource, resource_type, index) ==
    LET required == _get_required_fields(resource_type)
        missing(i) ==
            IF HasKey(resource, required[i])
            THEN <<>>
            ELSE << "Entry " \o ToString(index) \o " (" \o PyStr(resource_type)
                    \o "): missing required field '" \o required[i] \o "'" >>
    IN  Flatten([i \in 1..Len(required) |-> missing(i)])

\* _validate_entry: the errors of one entry, or the exception it raises
_validate_entry(entry, index) ==
    IF ~IsDict(entry)
    THEN [exc |-> "none",
          value |-> << "Entry " \o ToString(index) \o ": must be a JSON object" >>]
    ELSE LET resource == Get(entry, "resource", JNone)
         IN  IF ~Truthy(resource)
             THEN [exc |-> "none",
                   value |-> << "Entry " \o ToString(index)
                                \o ": missing 'resource' property" >>]
             ELSE IF ~IsDict(resource)
             THEN [exc |-> "AttributeError", value |-> <<>>]
             ELSE LET resource_type == Get(resource, "resourceType", JNone)
                  IN  IF ~Truthy(resource_type)
                      THEN [exc |-> "none",
                            value |-> << "Entry " \o ToString(index)
                                         \o ": resource missing 'resourceType'" >>]
                      ELSE [exc |-> "none",
                            value |-> MissingFields(resource, resource_type, index)]

\* _collect_references: the references of obj, in the order they are met
RECURSIVE _collect_references(_)
_collect_references(obj) ==
    CASE obj.t = "dict" ->
            (IF HasKey(obj, "reference") /\ Get(obj, "reference", JNone).t = "str"
             THEN <<Get(obj, "reference", JNone).v>>
             ELSE <<>>)
            \o Flatten([i \in 1..Len(obj.v) |-> _collect_references(obj.v[i][2])])
      [] obj.t = "list" ->
            Flatten([i \in 1..Len(obj.v) |-> _collect_references(obj.v[i])])
      [] OTHER -> <<>>

\* the references that start with "urn:uuid:"
UrnReferences == {"urn:uuid:a", "urn:uuid:b"}

\* the references that hold "/" and do not start with "http"
RelativeReferences == {"Patient/1", "Patient/2"}

\* for obj in x: the items of a list; None and numbers are not iterable
Iterable(x) == x.t = "list"

\* the loop of lines 155-165 on one entry: its resource id, if any, and its
\* references, or the exception raised
SemanticsOfEntry(entry) ==
    IF ~IsDict(entry)
    THEN [exc |-> "AttributeError", value |-> <<>>]
    ELSE LET resource == Get(entry, "resource", JDict(<<>>))
         IN  IF ~IsDict(resource)
             THEN [exc |-> "AttributeError", value |-> <<>>]
             ELSE [exc |-> "none",
                   value |-> << [ids |-> IF HasKey(resource, "id")
                                         THEN { PyStr(Get(resource, "resourceType", JStr("")))
                                                \o "/" \o PyStr(Get(resource, "id", JNone)) }
                                         ELSE {},
                                 refs |-> _collect_references(resource)] >>]

\* the warning of the reference ref used in entry entry_idx, if any
\* (lines 168-183)
ReferenceWarning(entry_idx, ref, full_urls, resource_ids) ==
    IF ref \in UrnReferences
    THEN IF ref \notin full_urls
         THEN << "Entry " \o ToString(entry_idx) \o ": reference '" \o ref
                 \o "' may not resolve within bundle" >>
         ELSE <<>>
    ELSE IF ref \in RelativeReferences /\ ref \notin resource_ids
         THEN << "Entry " \o ToString(entry_idx) \o ": reference '" \o ref
                 \o "' not found in bundle" >>
         ELSE <<>>

\* _validate_bundle_semantics: errors and warnings, or the exception raised
_validate_bundle_semantics(b) ==
    LET entries == Get(b, "entry", JList(<<>>))
    IN  IF ~Iterable(entries)
        THEN [exc |-> "TypeError", errors |-> <<>>, warnings |-> <<>>]
        ELSE LET loop == LoopResult([i \in 1..Len(entries.v) |-> SemanticsOfEntry(entries.v[i])])
                 resource_ids == UNION { loop.value[i].ids : i \in 1..Len(loop.value) }
                 full_urls == { PyStr(Get(entries.v[i], "fullUrl", JStr(""))) :
                                  i \in 1..Len(entries.v) }
                 warningsOf(i) ==
                     Flatten([k \in 1..Len(loop.value[i].refs) |->
                                 ReferenceWarning(i - 1, loop.value[i].refs[k],
                                                  full_urls, resource_ids)])
             IN  IF loop.exc # "none"
                 THEN [exc |-> loop.exc, errors |-> <<>>, warnings |-> <<>>]
                 ELSE [exc |-> "none",
                       errors |-> <<>>,
                       warnings |-> Flatten([i \in 1..Len(loop.value) |-> warningsOf(i)])]

\* what the import and the call of FHIRBundle.model_validate can do: the
\* package is missing, the bundle passes, the library raises a validation
\* error, the library raises another exception
FhirOutcomes == {"missing", "passes", "validation_error", "other_error"}

STR_LIBRARY_MESSAGE == "1 validation error for Bundle"

STR_LIBRARY_FAILURE == "unexpected value"

\* lines 56-76: errors, warnings and info of the library step, or the
\* exception that leaves it
LibraryStep(b, entries, library) ==
    CASE library = "passes" ->
            [exc |-> "none", errors |-> <<>>, warnings |-> <<>>,
             info |-> <<"Bundle passes fhir.resources structural validation">>]
      [] library = "validation_error" ->
            [exc |-> "none",
             errors |-> <<"FHIR validation error: " \o STR_LIBRARY_MESSAGE>>,
             warnings |-> <<>>, info |-> <<>>]
      [] library = "other_error" ->
            [exc |-> "none",
             errors |-> <<"Validation failed: " \o STR_LIBRARY_FAILURE>>,
             warnings |-> <<>>, info |-> <<>>]
      [] OTHER ->
            IF Truthy(entries) /\ ~Iterable(entries)
            THEN [exc |-> "TypeError", errors |-> <<>>, warnings |-> <<>>, info |-> <<>>]
            ELSE LET loop == LoopResult([i \in 1..Len(entries.v) |->
                                            _validate_entry(entries.v[i], i - 1)])
                 IN  [exc |-> loop.exc,
                      errors |-> loop.value,
                      warnings |-> <<"fhir.resources not installed - using basic validation only">>,
                      info |-> <<>>]

\* lines 83-88
Result(errors, warnings, info) ==
    [valid |-> Len(errors) = 0, errors |-> errors, warnings |-> warnings, info |-> info]

\* validate_fhir (lines 30-88): what it returns, or the exception it raises
validate_fhir(b, library) ==
    IF ~IsDict(b)
    THEN [exc |-> "none",
          value |-> [valid |-> FALSE, errors |-> <<"Bundle must be a JSON object">>,
                     warnings |-> <<>>, info |-> <<>>]]
    ELSE LET resource_type == Get(b, "resourceType", JNone)
             bundle_type == Get(b, "type", JNone)
             entries == Get(b, "entry", JList(<<>>))
             errors1 == IF resource_type # JStr("Bundle")
                        THEN << "Expected resourceType 'Bundle', got '"
                                \o PyStr(resource_type) \o "'" >>
                        ELSE <<>>
             errors2 == IF ~BundleTypeAllowed(bundle_type)
                        THEN << "Invalid bundle type: " \o PyStr(bundle_type) >>
                        ELSE <<>>
             warnings1 == IF ~Truthy(entries) THEN <<"Bundle has no entries">> ELSE <<>>
             step == LibraryStep(b, entries, library)
             semantic_issues == _validate_bundle_semantics(b)
         IN  IF step.exc # "none"
             THEN [exc |-> step.exc, value |-> <<>>]
             ELSE IF semantic_issues.exc # "none"
             THEN [exc |-> semantic_issues.exc, value |-> <<>>]
             ELSE [exc |-> "none",
                   value |-> Result(errors1 \o errors2 \o step.errors
                                        \o semantic_issues.errors,
                                    warnings1 \o step.warnings \o semantic_issues.warnings,
                                    step.info)]

\* what is passed in place of a bundle that is no JSON object
NonObjects == {JStr("not a dict"), JNone, JNum(5), JList(<<>>)}

\* a reference to ref, as the value of a field of a resource
Reference(ref) == JDict(<< <<"reference", JStr(ref)>> >>)

\* the values under "resource" in the entries tried
SampleResources ==
    { JNone,
      JStr("Patient/1"),
      JDict(<< <<"id", JStr("1")>> >>),
      JDict(<< <<"resourceType", JStr("Patient")>>, <<"id", JStr("1")>> >>),
      JDict(<< <<"resourceType", JStr("Observation")>> >>),
      JDict(<< <<"resourceType", JStr("Observation")>>, <<"status", JStr("final")>>,
               <<"code", JDict(<<>>)>>, <<"subject", Reference("Patient/1")>> >>),
      JDict(<< <<"resourceType", JStr("Observation")>>, <<"status", JStr("final")>>,
               <<"code", JDict(<<>>)>>,
               <<"performer", JList(<<Reference("urn:uuid:a")>>)>> >>) }

\* the entries tried: no object, without resource, with each sample
\* resource, with and without fullUrl
SampleEntries ==
    {JStr("x"), JDict(<<>>)}
    \cup { JDict(<< <<"resource", r>> >>) : r \in SampleResources }
    \cup { JDict(<< <<"fullUrl", JStr("urn:uuid:a")>>, <<"resource", r>> >>) :
             r \in SampleResources }

\* the values under "entry": lists of at most MaxEntries sample entries, and
\* values that are no list
EntryValues ==
    {JNone, JNum(5)}
    \cup { JList(items) : items \in SeqsUpTo(SampleEntries, MaxEntries) }

\* the pair of key and value, when the key is given
Field(key, values) == {<<>>} \cup { << <<key, x>> >> : x \in values }

\* the JSON objects passed as bundle
SampleBundles ==
    { JDict(rt \o ty \o en) :
        rt \in Field("resourceType", {JStr("Bundle"), JStr("Patient")}),
        ty \in Field("type", {JStr("batch"), JStr("history"), JStr("invalid-type"),
                              JNum(5)}),
        en \in Field("entry", EntryValues) }

ValidationInputs == NonObjects \cup SampleBundles

InitValidate ==
    /\ RecvInit
    /\ AckIdle
    /\ SenderIdle
    /\ faults = FALSE
    /\ toolPc = "call"
    /\ bundle \in ValidationInputs
    /\ OtherIdle
    /\ fhir_resources \in FhirOutcomes
    /\ validation = <<>>

CallValidateFhir ==
    /\ toolPc = "call"
    /\ validation' = validate_fhir(bundle, fhir_resources)
    /\ toolPc' = "done"
    /\ UNCHANGED <<bundle, fhir_resources, netVars, recvVars, ackVars, senderVars,
                   otherVars>>

NextValidate == CallValidateFhir

SpecValidate == InitValidate /\ [][NextValidate]_vars

(***************************************************************************)
(* The transformation graph of agent/graph.py from transform_to_fhir on:   *)
(* validate_fhir, the routing of should_retry, self_correct.               *)
(***************************************************************************)
\* state.py line 100: max_retries=3
MAX_RETRIES == 3

\* what json.loads makes of an answer of the LLM that parses: null, a
\* bundle that validates, an object of another resource type, a bundle with
\* an entry that is a resource, a bundle with an entry that is no object
LlmBundles ==
    { JNone,
      JDict(<< <<"resourceType", JStr("Bundle")>>, <<"type", JStr("batch")>> >>),
      JDict(<< <<"resourceType", JStr("Patient")>> >>),
      JDict(<< <<"resourceType", JStr("Bundle")>>, <<"type", JStr("batch")>>,
               <<"entry", JList(<< JDict(<< <<"resource",
                    JDict(<< <<"resourceType", JStr("Patient")>>,
                             <<"id", JStr("1")>> >>)>> >>) >>)>> >>),
      JDict(<< <<"resourceType", JStr("Bundle")>>, <<"type", JStr("batch")>>,
               <<"entry", JList(<< JStr("x") >>)>> >>) }

\* what fhir.resources may do in a process where importing it does what
\* imported says
LibraryOutcomes(imported) ==
    IF imported = "missing" THEN {"missing"} ELSE FhirOutcomes \ {"missing"}

\* the nodes and edges left idle by everything else
GraphRest == <<netVars, recvVars, ackVars, senderVars, toolVars, timeVars, queueVars>>

\* state.py lines 86-101 and graph.py lines 41-44: the state of
\* create_initial_state, about to run transform_to_fhir
InitGraph ==
    /\ RecvInit
    /\ AckIdle
    /\ SenderIdle
    /\ faults = FALSE
    /\ toolPc = "idle"
    /\ bundle = <<>>
    /\ fhir_resources \in {"missing", "passes"}
    /\ validation = <<>>
    /\ TimeIdle
    /\ QueueIdle
    /\ graphPc = "transform_to_fhir"
    /\ fhir_bundle = JNone
    /\ validation_results = JNone
    /\ is_valid = FALSE
    /\ error_count = 0
    /\ max_retries = MAX_RETRIES
    /\ nValidate = 0
    /\ nCorrect = 0
    /\ gaveUp = FALSE

\* nodes.py lines 159-181: the answer parses to a JSON value, or does not
\* (JSONDecodeError) and the bundle is None
TransformToFhirNode ==
    /\ graphPc = "transform_to_fhir"
    /\ fhir_bundle' \in LlmBundles
    /\ graphPc' = "validate_fhir"
    /\ UNCHANGED <<validation_results, is_valid, error_count, max_retries, nValidate,
                   nCorrect, gaveUp, GraphRest>>

\* nodes.py lines 184-211
ValidateFhirNode ==
    /\ graphPc = "validate_fhir"
    /\ nValidate' = nValidate + 1
    /\ IF fhir_bundle = JNone
       THEN /\ validation_results' =
                  [valid |-> FALSE, errors |-> <<"No FHIR bundle to validate">>]
            /\ is_valid' = FALSE
            /\ graphPc' = "should_retry"
       ELSE \E library \in LibraryOutcomes(fhir_resources) :
               \E outcome \in {validate_fhir(fhir_bundle, library)} :
                  IF outcome.exc # "none"
                  THEN /\ graphPc' = "raised"
                       /\ UNCHANGED <<validation_results, is_valid>>
                  ELSE /\ validation_results' = outcome.value
                       /\ is_valid' = outcome.value.valid
                       /\ graphPc' = "should_retry"
    /\ UNCHANGED <<fhir_bundle, error_count, max_retries, nCorrect, gaveUp, GraphRest>>

\* nodes.py lines 268-285
should_retry(valid, count, retries) ==
    IF valid THEN "end"
    ELSE IF count >= retries THEN "end"
    ELSE "retry"

\* graph.py lines 47-54: the conditional edge after validate_fhir
ShouldRetryEdge ==
    /\ graphPc = "should_retry"
    /\ graphPc' = IF should_retry(is_valid, error_count, max_retries) = "end"
                  THEN "END" ELSE "self_correct"
    /\ UNCHANGED <<fhir_bundle, validation_results, is_valid, error_count, max_retries,
                   nValidate, nCorrect, gaveUp, GraphRest>>

\* nodes.py lines 214-265 and graph.py line 57: the answer of the LLM parses
\* to a JSON value, or does not and the bundle is kept
SelfCorrectNode ==
    /\ graphPc = "self_correct"
    /\ nCorrect' = nCorrect + 1
    /\ error_count' = error_count + 1
    /\ IF error_count + 1 > max_retries
       THEN /\ gaveUp' = TRUE
            /\ UNCHANGED fhir_bundle
       ELSE /\ fhir_bundle' \in LlmBundles \cup {fhir_bundle}
            /\ UNCHANGED gaveUp
    /\ graphPc' = "validate_fhir"
    /\ UNCHANGED <<validation_results, is_valid, max_retries, nValidate, GraphRest>>

NextGraph ==
    \/ TransformToFhirNode
    \/ ValidateFhirNode
    \/ ShouldRetryEdge
    \/ SelfCorrectNode

\* the graph runs its next node while there is one
SpecGraph ==
    /\ InitGraph
    /\ [][NextGraph]_vars
    /\ WF_vars(NextGraph)

(***************************************************************************)
(* Properties of the receiver's framing, checked under SpecRecv.           *)
(***************************************************************************)
\* p holds no start marker and no end-marker sequence
MarkerFree(p) == ~Contains(p, MLLP_START) /\ ~Contains(p, MLLP_END)

\* the message whose frame is the byte string f, when f is the frame of a
\* message (decoding inverts encoding on what a sender encodes)
FramedIn(f) == Utf8DecodeReplace(PySlice(f, 1, -2))

\* f is the frame a sender builds of a marker-free message
IsCleanFrame(f) ==
    /\ Len(f) >= Len(MLLP_START) + Len(MLLP_END)
    /\ f = Frame(FramedIn(f))
    /\ MarkerFree(PySlice(f, 1, -2))

\* the offset in the session's stream just past its first end marker
FirstEnd == PyIndex(wireIn, MLLP_END) + Len(MLLP_END)

\* bytes of the session's stream the receiver has read
Consumed == Len(wireIn) - Len(c2s)

\* the offsets of '|' in line
PipesOf(line) == {i \in 1..Len(line) : line[i] = PIPE}

\* the text between the k-th and the (k+1)-th '|' of line (k >= 1)
FieldAfterPipe(line, k) ==
    LET from == CHOOSE i \in PipesOf(line) :
                    Cardinality({j \in PipesOf(line) : j < i}) = k - 1
        later == {j \in PipesOf(line) : j > from}
        to == IF later = {} THEN Len(line) + 1
              ELSE CHOOSE j \in later : \A l \in later : j <= l
    IN  SubSeq(line, from + 1, to - 1)

\* the text of m up to its first '\r'
FirstLineOf(m) ==
    LET crs == {i \in 1..Len(m) : m[i] = CR}
    IN  IF crs = {} THEN m
        ELSE SubSeq(m, 1, (CHOOSE i \in crs : \A j \in crs : i <= j) - 1)

\* the control ID an acknowledgment of m is to echo: the tenth field of the
\* first line, "0" when that line has fewer than ten fields
ExpectedControlId(m) ==
    IF Cardinality(PipesOf(FirstLineOf(m))) >= 9
    THEN FieldAfterPipe(FirstLineOf(m), 9)
    ELSE STR_ZERO

\* the lines of the payload of a framed acknowledgment
AckLines(ack) == PySplit(Utf8DecodeReplace(PySlice(ack, 1, -2)), CR)

\* ack is framed and its header and status line echo the control ID id
AckEchoes(ack, id) ==
    /\ SubSeq(ack, 1, 1) = MLLP_START
    /\ PySlice(ack, -2, Len(ack)) = MLLP_END
    /\ Len(AckLines(ack)) = 3
    /\ LET msh == PySplit(AckLines(ack)[1], PIPE)
           msa == PySplit(AckLines(ack)[2], PIPE)
       IN  /\ Len(msh) = 12
           /\ msh[10] = id
           /\ Len(msa) = 4
           /\ msa[1] = <<77, 83, 65>>
           /\ msa[2] = <<65, 65>>
           /\ msa[3] = id

\* C1: a frame of a marker-free payload, read whole into the empty buffer:
\* the drain loop extracts that payload once, nothing else, and leaves the
\* buffer empty
C1_RoundTripFraming ==
    (nReads = 1 /\ c2s = <<>> /\ rpc # "accept" /\ IsCleanFrame(wireIn))
        => /\ extracted \in {<<>>, <<FramedIn(wireIn)>>}
           /\ rpc = "loop" => (extracted = <<>> <=> buffer = wireIn)
           /\ rpc = "recv" => (extracted = <<FramedIn(wireIn)>> /\ buffer = <<>>)

C1_Witness ==
    /\ wireIn = Frame(SampleMsgY)
    /\ nReads = 1
    /\ c2s = <<>>
    /\ rpc = "recv"
    /\ extracted = <<SampleMsgY>>
    /\ buffer = <<>>

\* C2: a frame of a marker-free payload delivered by two reads: nothing is
\* extracted after the first, which stays in the buffer, and the payload is
\* extracted once after the second
C2_SplitReadReassembly ==
    (rpc # "accept" /\ nReads \in {1, 2} /\ IsCleanFrame(wireIn))
        => /\ (nReads = 1 /\ c2s # <<>>)
                => /\ extracted = <<>>
                   /\ buffer = SubSeq(wireIn, 1, Consumed)
                   /\ rpc \in {"loop", "recv"}
           /\ (nReads = 2 /\ c2s = <<>>)
                => /\ extracted \in {<<>>, <<FramedIn(wireIn)>>}
                   /\ rpc = "recv" => (extracted = <<FramedIn(wireIn)>> /\ buffer = <<>>)

C2_Witness ==
    /\ wireIn = Frame(SampleMsgX)
    /\ nReads = 2
    /\ c2s = <<>>
    /\ rpc = "recv"
    /\ extracted = <<SampleMsgX>>
    /\ Len(acks) = 1

\* C3: two frames of marker-free payloads in one read: both payloads are
\* extracted in order, the buffer ends empty, and two acknowledgments are
\* written, the first echoing the first payload's control ID, the second the
\* second's; never more acknowledgments than payloads
C3_BatchedFrames ==
    LET f1 == SubSeq(wireIn, 1, FirstEnd)
        f2 == SubSeq(wireIn, FirstEnd + 1, Len(wireIn))
    IN  (/\ nReads = 1 /\ c2s = <<>> /\ rpc # "accept"
         /\ Contains(wireIn, MLLP_END)
         /\ IsCleanFrame(f1)
         /\ IsCleanFrame(f2))
            => /\ Len(acks) <= Len(extracted)
               /\ Len(extracted) <= 2
               /\ rpc = "recv"
                    => /\ extracted = <<FramedIn(f1), FramedIn(f2)>>
                       /\ buffer = <<>>
                       /\ Len(acks) = 2
                       /\ AckEchoes(acks[1], ExpectedControlId(FramedIn(f1)))
                       /\ AckEchoes(acks[2], ExpectedControlId(FramedIn(f2)))

C3_Witness ==
    /\ wireIn = Frame(SampleMsgX) \o Frame(SampleMsgY)
    /\ nReads = 1
    /\ rpc = "recv"
    /\ extracted = <<SampleMsgX, SampleMsgY>>
    /\ Len(acks) = 2
    /\ AckEchoes(acks[1], <<88>>)
    /\ AckEchoes(acks[2], <<89>>)

\* bytes in front of the first start marker of the session's stream
NoiseLen == IF Contains(wireIn, MLLP_START) THEN PyIndex(wireIn, MLLP_START) ELSE Len(wireIn)

\* the offset just past the first end marker that follows the first start
\* marker, 0 when there is none
FirstFrameEnd ==
    LET ends == {e \in Occurrences(wireIn, MLLP_END) : e > NoiseLen}
    IN  IF ends = {} THEN 0
        ELSE (CHOOSE e \in ends : \A f \in ends : e <= f) + Len(MLLP_END)

\* C4: whatever bytes precede the first start marker, every payload extracted
\* is a run of stream bytes that lies after that marker, and once the frame
\* that follows the noise has been read and drained the buffer holds none of
\* the noise
C4_NoiseTolerance ==
    (rpc # "accept")
        => /\ Len(spans) = Len(extracted)
           /\ \A i \in 1..Len(spans) :
                 /\ extracted[i] = Utf8DecodeReplace(PySlice(wireIn, spans[i][1], spans[i][2]))
                 /\ spans[i][1] < spans[i][2] => spans[i][1] > NoiseLen
           /\ (rpc = "recv" /\ FirstFrameEnd > 0 /\ Consumed >= FirstFrameEnd)
                 => bufBase >= NoiseLen

C4_Witness ==
    /\ wireIn = NoisyStream
    /\ rpc = "recv"
    /\ c2s = <<>>
    /\ extracted = <<<<>>, SampleMsgShort>>
    /\ buffer = <<>>

(***************************************************************************)
(* Properties of create_ack, checked under SpecAck.                        *)
(***************************************************************************)
\* the header line of a framed acknowledgment, split on '|'
AckHeaderFields(ack) == PySplit(AckLines(ack)[1], PIPE)

\* the status line of a framed acknowledgment, split on '|'
AckStatusFields(ack) == PySplit(AckLines(ack)[2], PIPE)

\* ack is one start marker, a payload of two '\r'-terminated lines free of
\* markers, one end marker
AckFramedTwoLines(ack) ==
    /\ Len(ack) >= 3
    /\ SubSeq(ack, 1, 1) = MLLP_START
    /\ SubSeq(ack, Len(ack) - 1, Len(ack)) = MLLP_END
    /\ MarkerFree(SubSeq(ack, 2, Len(ack) - 2))
    /\ Len(AckLines(ack)) = 3
    /\ AckLines(ack)[3] = <<>>

\* the header "MSH|^~\&|f3|f4|f5|f6|clock||ACK^P03|id|P|2.5" and the status
\* line "MSA|AA|id|Message received successfully"
AckCarries(ack, f3, f4, f5, f6, id) ==
    /\ AckHeaderFields(ack) =
          << <<77, 83, 72>>, <<94, 126, 92, 38>>, f3, f4, f5, f6, ackClock, <<>>,
             <<65, 67, 75, 94, 80, 48, 51>>, id, <<80>>, <<50, 46, 53>> >>
    /\ AckStatusFields(ack) =
          << <<77, 83, 65>>, <<65, 65>>, id,
             <<77, 101, 115, 115, 97, 103, 101, 32, 114, 101, 99, 101, 105, 118, 101,
               100, 32, 115, 117, 99, 99, 101, 115, 115, 102, 117, 108, 108, 121>> >>

\* C5: a first line of at least ten fields with sending app A, sending
\* facility B, receiving app C, receiving facility D and control ID M is
\* acknowledged by a framed two-line payload whose header carries C, D, A, B,
\* whose header and status line echo M, and whose status line says AA
C5_AcknowledgmentIdentity ==
    (ackPc = "done" /\ Len(ackFields) >= 10)
        => /\ ackResult.exc = "none"
           /\ AckFramedTwoLines(ackResult.value)
           /\ AckCarries(ackResult.value, ackFields[5], ackFields[6], ackFields[3],
                         ackFields[4], ackFields[10])

C5_Witness ==
    /\ ackPc = "done"
    /\ Len(ackFields) = 12
    /\ ackFields[3] = <<67>>
    /\ ackFields[4] = <<>>
    /\ ackFields[5] = <<233>>
    /\ ackFields[6] = <<70>>
    /\ ackFields[10] = <<77, 49>>
    /\ ackTail # <<>>
    /\ AckCarries(ackResult.value, <<233>>, <<70>>, <<67>>, <<>>, <<77, 49>>)

\* C6: on every payload string, the empty string and strings with no '|' or
\* no '\r' included, extracting the control fields never raises; when the
\* first line has fewer than ten fields the five control fields are the
\* sentinels UNKNOWN, UNKNOWN, BILLING, HOSPITAL, "0", and an acknowledgment
\* with accept code AA is still produced
C6_ControlFieldDefaulting ==
    (ackPc = "done")
        => /\ ackResult.exc = "none"
           /\ ackControl.exc = "none"
           /\ AckFramedTwoLines(ackResult.value)
           /\ AckStatusFields(ackResult.value)[2] = <<65, 65>>
           /\ Len(ackFields) < 10
                => /\ ackControl.sending_app = STR_UNKNOWN
                   /\ ackControl.sending_facility = STR_UNKNOWN
                   /\ ackControl.receiving_app = STR_BILLING
                   /\ ackControl.receiving_facility = STR_HOSPITAL
                   /\ ackControl.msg_control_id = STR_ZERO
                   /\ AckCarries(ackResult.value, STR_BILLING, STR_HOSPITAL, STR_UNKNOWN,
                                 STR_UNKNOWN, STR_ZERO)

C6_Witness ==
    /\ ackPc = "done"
    /\ Len(ackFields) = 9
    /\ Len(ackTail) > 10
    /\ ackResult.exc = "none"
    /\ ackControl.msg_control_id = STR_ZERO
    /\ AckCarries(ackResult.value, STR_BILLING, STR_HOSPITAL, STR_UNKNOWN, STR_UNKNOWN,
                  STR_ZERO)

(***************************************************************************)
(* Properties of the sender, checked under SpecPair and SpecSend.          *)
(***************************************************************************)
\* the first line of m has at least ten '|'-separated fields
HasTenFields(m) == Cardinality(PipesOf(FirstLineOf(m))) >= 9

\* the second line of the text value is the status line "MSA|AA|id|..."
StatusLineEchoes(value, id) ==
    /\ Len(PySplit(value, CR)) >= 2
    /\ LET msa == PySplit(PySplit(value, CR)[2], PIPE)
       IN  /\ Len(msa) >= 3
           /\ msa[1] = <<77, 83, 65>>
           /\ msa[2] = <<65, 65>>
           /\ msa[3] = id

\* the i-th call has returned a response whose status line accepts msgs[i]
RoundTripDone(i) ==
    /\ Len(results) >= i
    /\ results[i].cause = "response"
    /\ StatusLineEchoes(results[i].value, ExpectedControlId(msgs[i]))

\* every call for a message of at least ten fields has returned such a
\* response, the sender has finished and the receiver is back at accept
AllRoundTripsDone ==
    /\ spc = "done"
    /\ sock = "closed"
    /\ rpc = "accept"
    /\ conn = "none"
    /\ Len(results) = Len(msgs)
    /\ \A i \in 1..Len(msgs) : HasTenFields(msgs[i]) => RoundTripDone(i)

\* C7: when the sender transmits the frame of a payload whose first line has
\* at least ten fields and control ID M over a reliable connection, the
\* receiver stores the payload and writes one acknowledgment for it, the
\* call eventually returns a response whose status line is MSA|AA|M, and
\* neither side stays blocked: the sender finishes, the receiver is back at
\* accept
C7_SingleRoundTrip ==
    /\ []((~faults /\ closes = 1)
            => /\ mi > 1
               /\ stored = <<msgs[mi - 1]>>
               /\ Len(acks) = 1
               /\ AckEchoes(acks[1], ExpectedControlId(msgs[mi - 1])))
    /\ (~faults) ~> AllRoundTripsDone

C7_Witness ==
    /\ ~faults
    /\ msgs = <<SampleMsgY, SampleMsgX>>
    /\ spc = "done"
    /\ RoundTripDone(1)
    /\ RoundTripDone(2)
    /\ results[2].value # results[1].value
    /\ stored = <<SampleMsgX>>
    /\ Len(acks) = 1
    /\ closes = 1
    /\ rpc = "accept"

\* C8: when the peer has accepted the connection, writes no byte and never
\* closes, the call does not wait forever: it returns the timeout outcome
\* and its socket is closed
C8_SenderTimeout ==
    (spc = "recv" /\ conn = "accepted" /\ s2cFin = "idle" /\ s2c = <<>> /\ response = <<>>)
        ~> /\ Len(results) = 1
           /\ results[1] = [cause |-> "recv_timeout", value |-> STR_TIMED_OUT]
           /\ sock = "closed"

C8_Witness ==
    /\ conn = "accepted"
    /\ s2cFin = "idle"
    /\ c2s = Frame(SampleMsgX)
    /\ received = <<>>
    /\ results = <<[cause |-> "recv_timeout", value |-> STR_TIMED_OUT]>>
    /\ sock = "closed"
    /\ spc = "done"

\* C9: when the peer closes before a complete frame has arrived, what the
\* call returns differs from what it returns once that frame is complete, and
\* is not the bytes read so far
C9_IncompleteResponse ==
    (sock = "closed" /\ results # <<>>
        /\ results[Len(results)].cause \in {"eof_partial", "eof_empty"})
        => /\ results[Len(results)].value # StripResponse(received \o MLLP_END)
           /\ received # <<>> => results[Len(results)].value # StripResponse(received)

\* the outcomes of a call that are errors
ErrorCauses ==
    {"connect_timeout", "refused", "connect_error", "send_timeout", "send_error",
     "recv_timeout", "recv_error", "eof_partial", "eof_empty"}

\* C10: a connect timeout and a response timeout are returned as different
\* values, and no error outcome is returned as the value of a successful
\* response
C10_DistinctOutcomes ==
    \A i, j \in DOMAIN results :
        /\ (results[i].cause = "connect_timeout" /\ results[j].cause = "recv_timeout")
              => results[i].value # results[j].value
        /\ (results[i].cause \in ErrorCauses /\ results[j].cause = "response")
              => results[i].value # results[j].value

(***************************************************************************)
(* What a frame decoder takes from a byte stream.                          *)
(***************************************************************************)
\* bytes holds a start marker and, after it, an end-marker sequence
HasCompleteFrame(bytes) ==
    /\ Contains(bytes, MLLP_START)
    /\ Contains(PyTail(bytes, PyIndex(bytes, MLLP_START) + 1), MLLP_END)

\* the bytes strictly between the first start marker of bytes and the first
\* end-marker sequence after it
FirstFramePayload(bytes) ==
    LET after == PyTail(bytes, PyIndex(bytes, MLLP_START) + 1)
    IN  PySlice(after, 0, PyIndex(after, MLLP_END))

\* the offset in bytes just past the end marker of its first complete frame
FirstFramePast(bytes) ==
    LET from == PyIndex(bytes, MLLP_START) + 1
    IN  from + PyIndex(PyTail(bytes, from), MLLP_END) + Len(MLLP_END)

\* C11: the call that returned a response had read a complete frame, stopped
\* reading with the read that completed it, and returned exactly the payload
\* of the first complete frame of what it had read: no byte in front of the
\* frame's start marker and no byte after its end marker is in the value
C11_SenderReturnsOnePayload ==
    (sock = "closed" /\ results # <<>> /\ results[Len(results)].cause = "response")
        => /\ HasCompleteFrame(received)
           /\ results[Len(results)].value = Utf8DecodeReplace(FirstFramePayload(received))

(***************************************************************************)
(* Failures in a receiver session, checked under SpecRecv.                 *)
(***************************************************************************)
\* C12: a payload whose storing failed (extracted, never stored, no longer
\* being handled) has been acknowledged all the same, and the failure has not
\* ended the session
C12_StorageFailureStillAcks ==
    (Len(stored) < Len(extracted) /\ rpc \notin {"save", "ack"})
        => /\ Len(acks) = Len(extracted)
           /\ AckEchoes(acks[Len(acks)], ExpectedControlId(extracted[Len(extracted)]))
           /\ lastEnd # "save_error"

\* the ways a session ends
SessionEnds == {"eof", "recv_error", "save_error", "handler_error", "send_error"}

\* C13: however a session ends (peer close, read error, storage or handler
\* error, acknowledgment write error), the step that ends it puts the
\* listener back at accept, and the next connection is accepted and served
C13_SessionFailureNotFatal ==
    /\ [][closes' = closes + 1 => (lastEnd' \in SessionEnds /\ rpc' = "accept")]_vars
    /\ (lastEnd \in SessionEnds) ~> (lastEnd = "none" /\ conn = "accepted" /\ rpc = "recv")

C13_Witness ==
    /\ lastEnd = "send_error"
    /\ closes = 1
    /\ rpc = "accept"
    /\ conn = "none"
    /\ Len(stored) = 2
    /\ Len(acks) = 1

\* errors holds the message msg
Names(errors, msg) == \E i \in 1..Len(errors) : errors[i] = msg

\* the call is made on an input that is no JSON object, or on a bundle whose
\* type is not an accepted one
StructurallyWrong ==
    \/ ~IsDict(bundle)
    \/ ~BundleTypeAllowed(Get(bundle, "type", JNone))

\* the error that names what is wrong with the input
Problem ==
    IF ~IsDict(bundle)
    THEN "Bundle must be a JSON object"
    ELSE "Invalid bundle type: " \o PyStr(Get(bundle, "type", JNone))

\* in the result returned, valid says that errors is empty
ValidIffNoErrors == validation.value.valid <=> (validation.value.errors = <<>>)

\* the result returned rejects the input and names the problem
Rejected ==
    /\ validation.value.valid = FALSE
    /\ Names(validation.value.errors, Problem)

\* C14: validate_fhir returns, for every input that is no JSON object and
\* for every bundle whose type is not an accepted one, a result with valid
\* false and an errors list that names the problem; in every result valid
\* is true exactly when errors is empty
C14_RejectsStructurallyWrongInput ==
    toolPc = "done"
        => /\ validation.exc = "none" => ValidIffNoErrors
           /\ StructurallyWrong => (validation.exc = "none" /\ Rejected)

\* what holds of the calls that return
RejectsWhenItReturns ==
    (toolPc = "done" /\ validation.exc = "none")
        => /\ ValidIffNoErrors
           /\ StructurallyWrong => Rejected

\* a step of the drain loop that extracts a payload
ExtractStep == rpc = "loop" /\ rpc' = "save"

\* C15: the drain loop extracts a payload only while the buffer holds a start
\* marker and, after it, an end-marker sequence; the payload is the bytes
\* strictly between the first start marker and the first end-marker sequence
\* after it, and the buffer is advanced to just past that end marker; an
\* end-marker sequence in front of the first start marker yields no payload
C15_ExtractionRule ==
    [][ExtractStep
          => /\ HasCompleteFrame(buffer)
             /\ hl7_message' = Utf8DecodeReplace(FirstFramePayload(buffer))
             /\ extracted' = Append(extracted, hl7_message')
             /\ buffer' = PyTail(buffer, FirstFramePast(buffer))]_vars

\* the bytes at i and i + 1 of bytes are 0x1C 0x0D
EndMarkerAt(bytes, i) ==
    /\ i >= 1
    /\ i + 1 <= Len(bytes)
    /\ bytes[i] = MLLP_END[1]
    /\ bytes[i + 1] = MLLP_END[2]

\* the number of bytes an extracting step removes from the buffer
Cut == Len(buffer) - Len(buffer')

\* C16: a 0x1C not followed by 0x0D and a 0x0D not preceded by 0x1C end no
\* frame: every extracting step cuts the buffer just past the first place
\* where 0x1C 0x0D stand together, so a buffer with a start marker, payload
\* bytes and lone 0x1C or 0x0D bytes yields nothing, and the payload taken
\* from a start marker up to that place keeps the lone bytes it holds
C16_AtomicEndMarker ==
    [][ExtractStep
          => /\ EndMarkerAt(buffer, Cut - 1)
             /\ \A i \in 1..(Cut - 2) : ~EndMarkerAt(buffer, i)
             /\ buffer' = SubSeq(buffer, Cut + 1, Len(buffer))
             /\ \A s \in 1..(Cut - 2) :
                   (buffer[s] = MLLP_START[1] /\ \A j \in 1..(s - 1) : buffer[j] # MLLP_START[1])
                      => hl7_message' = Utf8DecodeReplace(SubSeq(buffer, s + 1, Cut - 2))]_vars

C16_Witness ==
    /\ wireIn = <<11, 13, 28, 28, 13>>
    /\ nReads >= 2
    /\ extracted = << <<13, 28>> >>
    /\ buffer = <<>>
    /\ rpc = "recv"

\* C17: on every buffer (truncated frames, stray markers, markers in any
\* order, invalid UTF-8) the drain loop raises nothing and ends: whenever its
\* condition holds both index calls find their marker, every iteration
\* leaves the buffer strictly shorter, by the two bytes of an end marker at
\* least, and so a session makes at most one iteration per two bytes read
C17_DecodingTotalAndTerminates ==
    /\ [](rpc = "loop" /\ FrameAvailable(buffer)
             => /\ PyIndex(buffer, MLLP_START) >= 0
                /\ PyIndex(buffer, MLLP_END) >= 0)
    /\ [][ExtractStep
             => /\ Len(buffer') < Len(buffer)
                /\ Len(buffer') <= Len(buffer) - Len(MLLP_END)
                /\ hl7_message' \in Seq(0..1114111)]_vars
    /\ [](rpc # "accept"
             => /\ Len(MLLP_END) * Len(extracted) <= bufBase
                /\ bufBase + Len(buffer) = Consumed)

C17_Witness ==
    /\ wireIn = <<28, 13, 11, 28, 13>>
    /\ nReads = 1
    /\ rpc = "recv"
    /\ Len(extracted) = 2
    /\ buffer = <<>>
    /\ lastEnd = "none"

\* the acknowledgment a step writes
WrittenAck == acks'[Len(acks')]

\* C18: within a connection the frames are handled in arrival order and the
\* acknowledgment of a frame is written before the next frame is taken out
\* of the buffer: a step that extracts finds every earlier payload stored and
\* acknowledged, a step that writes writes the one acknowledgment of the
\* payload in hand, and the i-th acknowledgment answers the i-th payload
C18_AcknowledgmentOrdering ==
    /\ [][ExtractStep => (Len(acks) = Len(extracted) /\ Len(stored) = Len(extracted))]_vars
    /\ [][Len(acks') > Len(acks)
             => /\ acks' = Append(acks, WrittenAck)
                /\ s2c' = s2c \o WrittenAck
                /\ Len(acks') = Len(extracted)
                /\ AckFramedTwoLines(WrittenAck)
                /\ AckEchoes(WrittenAck, ExpectedControlId(extracted[Len(extracted)]))]_vars
    /\ [](rpc # "accept"
             => /\ \A i \in 1..Len(acks) :
                      AckEchoes(acks[i], ExpectedControlId(extracted[i]))
                /\ \A i \in 1..Len(spans), j \in 1..Len(spans) :
                      i < j => spans[i][2] <= spans[j][1])

C18_Witness ==
    /\ wireIn = Frame(SampleMsgX) \o Frame(SampleMsgY)
    /\ nReads = 1
    /\ rpc = "save"
    /\ extracted = <<SampleMsgX, SampleMsgY>>
    /\ stored = <<SampleMsgX>>
    /\ Len(acks) = 1
    /\ AckEchoes(acks[1], <<88>>)

\* a step that closes the session's socket
CloseStep == closes' = closes + 1

\* the causes a read can end a session with
ReadEnds == {"eof", "recv_error"}

\* C19: a read that returns no bytes and every I/O error close the session:
\* the socket is closed once, the listener is back at accept, and what the
\* buffer still holds is dropped, neither stored nor acknowledged; a read of
\* no bytes ends the session as a peer close whatever the buffer holds
C19_ReceiverCloseSemantics ==
    /\ [][CloseStep
             => /\ closes = 0
                /\ conn = "accepted"
                /\ conn' = "none"
                /\ s2cFin' = "fin"
                /\ rpc' = "accept"
                /\ buffer' = <<>>
                /\ <<extracted', stored', acks', s2c'>> = <<extracted, stored, acks, s2c>>
                /\ rpc = "recv" => (/\ lastEnd' \in ReadEnds
                                    /\ ~FrameAvailable(buffer)
                                    /\ Len(stored) = Len(extracted)
                                    /\ Len(buffer) = Consumed - bufBase)
                /\ lastEnd' = "eof" => (rpc = "recv" /\ c2s = <<>> /\ c2sFin = "fin")]_vars
    /\ [](closes <= 1)
    /\ []((rpc = "accept" /\ closes = 1)
             => /\ conn = "none"
                /\ buffer = <<>>
                /\ Len(acks) <= Len(stored)
                /\ Len(stored) <= Len(extracted)
                /\ \A i \in 1..Len(stored) : stored[i] = extracted[i])

C19_Witness ==
    /\ wireIn = <<11, 28, 13, 11, 65>>
    /\ c2s = <<>>
    /\ bufBase = 3
    /\ lastEnd = "eof"
    /\ closes = 1
    /\ rpc = "accept"
    /\ stored = << <<>> >>
    /\ Len(acks) = 1
    /\ buffer = <<>>

\* the session has ended on a failed write of an acknowledgment
EndedOnSendError == lastEnd = "send_error"

\* C20: when the write of a payload's acknowledgment fails the session ends
\* at once: the socket is closed, the payload is stored already and stays
\* stored without acknowledgment, and the complete frames still in the
\* buffer are dropped, neither stored nor acknowledged
C20_AcknowledgmentWriteFailure ==
    /\ [][lastEnd' = "send_error" /\ lastEnd # "send_error"
             => /\ rpc = "ack"
                /\ CloseStep
                /\ conn' = "none"
                /\ s2cFin' = "fin"
                /\ rpc' = "accept"
                /\ buffer' = <<>>
                /\ stored[Len(stored)] = hl7_message
                /\ <<extracted', stored', acks', s2c'>> = <<extracted, stored, acks, s2c>>]_vars
    /\ [](EndedOnSendError
             => /\ rpc = "accept"
                /\ conn = "none"
                /\ closes = 1
                /\ buffer = <<>>
                /\ stored = extracted
                /\ Len(acks) = Len(stored) - 1
                /\ \A i \in 1..Len(acks) :
                      AckEchoes(acks[i], ExpectedControlId(stored[i])))
    /\ [][EndedOnSendError
             => <<extracted', stored', acks'>> \in {<<extracted, stored, acks>>,
                                                    <<<<>>, <<>>, <<>>>>}]_vars

\* two frames read at once; the write of the first acknowledgment fails and
\* the second frame is dropped
C20_Witness ==
    /\ EndedOnSendError
    /\ wireIn = Frame(SampleMsgX) \o Frame(SampleMsgY)
    /\ nReads = 1
    /\ c2s = <<>>
    /\ stored = <<SampleMsgX>>
    /\ acks = <<>>
    /\ bufBase = Len(Frame(SampleMsgX))

\* the call that last returned took what it had read for the response
ReturnedResponse ==
    /\ results # <<>>
    /\ results[Len(results)].cause \in {"response", "eof_partial"}

\* C21: whatever bytes were received as the response, the value returned on
\* success holds no start-marker byte and no end-marker sequence, also when
\* the removal of a marker brings a 0x1C and a 0x0D together
C21_MarkerStripping ==
    ReturnedResponse => MarkerFree(results[Len(results)].value)

\* C22: the sender bounds the whole wait for the response: while it still
\* waits, no more than the response timeout has passed since it began to
\* wait, also when the peer keeps sending bytes that complete no frame,
\* each before a single read would time out
C22_OverallResponseTimeout ==
    (spc = "recv" /\ sock = "open") => elapsed <= SOCKET_TIMEOUT

\* the place of a step of send_hl7_message in the call
StageOf(pc) ==
    CASE pc = "connect" -> 1
      [] pc = "send" -> 2
      [] pc = "recv" -> 3
      [] OTHER -> 4

\* the causes for which "Connection timed out" is returned
TimeoutCauses == {"connect_timeout", "send_timeout", "recv_timeout"}

\* s is the beginning of t
IsPrefix(s, t) == Len(s) <= Len(t) /\ SubSeq(t, 1, Len(s)) = s

\* C23: whatever the outcome, a call of send_hl7_message connects at most
\* once and writes its frame at most once (no step of a call goes back to
\* connect or to send), has its socket closed when it returns, and returns
\* on a timeout the fixed text and none of the bytes it had received
C23_SingleShotSession ==
    /\ [][mi' = mi => (StageOf(spc') = StageOf(spc) \/ StageOf(spc') = StageOf(spc) + 1)]_vars
    /\ [][sock' = "open" /\ sock # "open" => spc = "connect" /\ spc' = "send" /\ mi' = mi]_vars
    /\ [][Len(wireIn') > Len(wireIn)
             => /\ spc = "send" /\ spc' = "recv" /\ mi' = mi
                /\ \E part \in {SubSeq(wireIn', Len(wireIn) + 1, Len(wireIn'))} :
                      /\ wireIn' = wireIn \o part
                      /\ IsPrefix(part, Frame(msgs[mi]))]_vars
    /\ [][results' # results
             => /\ results' = Append(results, results'[Len(results')])
                /\ mi' = mi + 1
                /\ sock' = "closed"]_vars
    /\ [](results # <<>> /\ results[Len(results)].cause \in TimeoutCauses
             => results[Len(results)].value = STR_TIMED_OUT)
    /\ [](spc \in {"connect", "done"} => sock # "open")

C23_Witness ==
    /\ results # <<>>
    /\ results[Len(results)].cause = "recv_timeout"
    /\ results[Len(results)].value = STR_TIMED_OUT
    /\ received = <<11, 65>>
    /\ sock = "closed"
    /\ spc = "done"

\* bytes is zero or more complete frames followed by at most one beginning
\* of a frame: it is empty, or begins with the start marker and, past the
\* first end-marker sequence if there is one, is again of that form
RECURSIVE WellFramed(_)
WellFramed(bytes) ==
    IF bytes = <<>> THEN TRUE
    ELSE /\ SubSeq(bytes, 1, Len(MLLP_START)) = MLLP_START
         /\ IF Contains(bytes, MLLP_END)
            THEN WellFramed(PyTail(bytes, FirstFramePast(bytes)))
            ELSE TRUE

\* C24: the buffer of a session is always complete frames followed by at
\* most one incomplete frame, and while the session waits in recv it holds
\* no complete frame and no byte in front of a start marker
C24_StreamBufferInvariant ==
    /\ WellFramed(buffer)
    /\ rpc = "recv" => ~HasCompleteFrame(buffer) /\ (buffer # <<>> => buffer[1] = MLLP_START[1])

\* C25: the bytes the sender has written on a connection are never more
\* than the one frame of the message the call is for (the whole frame when
\* sock.send takes it whole), they are written in one step onto a connection
\* that carried nothing yet, and message k+1 is written only when the calls
\* for messages 1..k have all returned their outcome
C25_NoPipelining ==
    /\ [](sock = "open" => IsPrefix(wireIn, Frame(msgs[mi])))
    /\ [](sock = "open" /\ spc = "recv" /\ ~faults => wireIn = Frame(msgs[mi]))
    /\ [][wireIn' # wireIn /\ wireIn' # <<>>
             => /\ wireIn = <<>>
                /\ sock = "open"
                /\ spc = "send"
                /\ Len(results) = mi - 1
                /\ mi' = mi
                /\ results' = results]_vars
    /\ [][mi' # mi => mi' = mi + 1 /\ Len(results') = mi /\ sock' = "closed"]_vars

C25_Witness ==
    /\ Len(msgs) = 2
    /\ mi = 2
    /\ Len(results) = 1
    /\ sock = "open"
    /\ spc = "recv"
    /\ wireIn = Frame(msgs[2])

\* both create_ack and extract_message_info have been applied to the payload
HeaderRead == ackPc = "done" /\ msgInfo # <<>>

\* the first line of the payload, split on the pipe character
FirstLineFields == PySplit(PySplit(ackMessage, CR)[1], PIPE)

\* field i of fields, counting from 0; fields holds it
ZeroIndexed(fields, i) == fields[i + 1]

\* the lines of the payload, split on the pipe character, that begin with
\* "MSH|" and have a field i, counting from 0
HeaderLinesWith(i) ==
    LET lines == PySplit(ackMessage, CR)
    IN  { k \in 1..Len(lines) :
            /\ StartsWith(lines[k], STR_MSH_LINE)
            /\ Len(PySplit(lines[k], PIPE)) > i }

\* C26: counting the pipe-separated fields of the first line from 0, the
\* message type the receiver reports is field 9 and the control ID it echoes
\* in the acknowledgment is field 10, when the line has them
C26_HeaderFieldPositions ==
    HeaderRead
        => /\ Len(FirstLineFields) > 9
                => msgInfo.message_type = ZeroIndexed(FirstLineFields, 9)
           /\ Len(FirstLineFields) > 10
                => ackControl.msg_control_id = ZeroIndexed(FirstLineFields, 10)

\* C26, amended: counting from 0, the control ID echoed in the
\* acknowledgment is field 9 of the first line when the line has at least ten
\* fields ("0" otherwise), and the message type is field 8 of the last line
\* that begins with "MSH|" and has more than eight fields: of the first line
\* when it is the only such line, "Unknown" when there is none
C26_HeaderFieldPositionsAmended ==
    HeaderRead
        => /\ ackResult.exc = "none"
           /\ IF Len(FirstLineFields) > 9
              THEN ackControl.msg_control_id = ZeroIndexed(FirstLineFields, 9)
              ELSE ackControl.msg_control_id = STR_ZERO
           /\ AckStatusFields(ackResult.value)[3] = ackControl.msg_control_id
           /\ IF HeaderLinesWith(8) = {}
              THEN msgInfo.message_type = STR_INFO_UNKNOWN
              ELSE \E k \in HeaderLinesWith(8) :
                      /\ \A j \in HeaderLinesWith(8) : j <= k
                      /\ msgInfo.message_type
                            = ZeroIndexed(PySplit(PySplit(ackMessage, CR)[k], PIPE), 8)
           /\ HeaderLinesWith(8) = {1}
                => msgInfo.message_type = ZeroIndexed(FirstLineFields, 8)

C26_Witness ==
    /\ HeaderRead
    /\ Len(FirstLineFields) = 12
    /\ HeaderLinesWith(8) = {1}
    /\ msgInfo.message_type = <<84>>
    /\ ackControl.msg_control_id = <<77, 49>>
    /\ ZeroIndexed(FirstLineFields, 9) = <<77, 49>>
    /\ ZeroIndexed(FirstLineFields, 10) = <<80>>

\* C27: from create_initial_state, whatever the validator and the LLM
\* return, the run reaches END and no exception ends it; the edge after
\* validate_fhir goes to END exactly when is_valid holds or error_count has
\* reached max_retries; self_correct runs at most max_retries times,
\* validate_fhir at most max_retries + 1 times, error_count never exceeds
\* max_retries and the "Max retries exceeded" branch is never taken
C27_BoundedSelfCorrection ==
    /\ [](graphPc # "raised")
    /\ <>(graphPc = "END")
    /\ [][graphPc = "should_retry"
             => (graphPc' = "END" <=> (is_valid \/ error_count >= max_retries))]_vars
    /\ [](/\ nCorrect <= max_retries
          /\ nValidate <= max_retries + 1
          /\ error_count <= max_retries
          /\ ~gaveUp)

\* the counts of C27 alone
RetryCountsBounded ==
    /\ nCorrect <= max_retries
    /\ nValidate <= max_retries + 1
    /\ error_count <= max_retries
    /\ ~gaveUp

\* what the extraction loop of handle_client takes out of bytes when bytes
\* arrive in a single read
RECURSIVE OneReadPayloads(_)
OneReadPayloads(bytes) ==
    IF FrameAvailable(bytes)
    THEN <<StripFraming(MllpMessage(bytes))>> \o OneReadPayloads(BufferAfter(bytes))
    ELSE <<>>

\* what that loop leaves in the buffer
RECURSIVE OneReadRest(_)
OneReadRest(bytes) ==
    IF FrameAvailable(bytes) THEN OneReadRest(BufferAfter(bytes)) ELSE bytes

\* the acknowledgments of payloads, in order
AcksOf(payloads) ==
    [i \in 1..Len(payloads) |->
        create_ack(payloads[i], CHOOSE ts \in SessionTimestamps : TRUE).value]

\* the bytes of the session's stream the receiver has read
BytesRead == SubSeq(wireIn, 1, Len(wireIn) - Len(c2s))

\* C28: however the stream is divided into reads, once the receiver has
\* dealt with the bytes read so far, the payloads extracted, the
\* acknowledgments written and the bytes left in the buffer are those of
\* the same bytes arriving in one read; so are the payloads and
\* acknowledgments of a session that read its whole stream and ended on
\* the peer's close
C28_ReadBoundaryIndependence ==
    /\ (rpc = "recv" /\ conn = "accepted")
          => /\ extracted = OneReadPayloads(BytesRead)
             /\ acks = AcksOf(OneReadPayloads(BytesRead))
             /\ buffer = OneReadRest(BytesRead)
    /\ lastEnd = "eof"
          => /\ c2s = <<>>
             /\ extracted = OneReadPayloads(wireIn)
             /\ acks = AcksOf(OneReadPayloads(wireIn))

C28_Witness ==
    /\ rpc = "recv"
    /\ conn = "accepted"
    /\ c2s = <<>>
    /\ nReads = 3
    /\ wireIn = <<11, 65, 28, 13, 65>>
    /\ extracted = << <<65>> >>
    /\ Len(acks) = 1
    /\ buffer = <<65>>

\* C29: an acknowledgment is written only once save_message has returned
\* for the payload it acknowledges: the step that writes acknowledgment n
\* finds payload n stored, it being the payload in hand, and stores nothing
\* itself; at every moment there are no more acknowledgments than stored
\* payloads, and acknowledgment i is the one of stored payload i
C29_StoreBeforeAcknowledge ==
    /\ [](Len(acks) <= Len(stored))
    /\ [](\A i \in 1..Len(acks) : i <= Len(stored) /\ acks[i] = AcksOf(stored)[i])
    /\ [][Len(acks') > Len(acks)
             => /\ Len(acks') = Len(acks) + 1
                /\ Len(stored) = Len(acks')
                /\ stored[Len(stored)] = hl7_message
                /\ acks'[Len(acks')] = AcksOf(<<hl7_message>>)[1]
                /\ stored' = stored]_vars
    /\ [][Len(stored') > Len(stored)
             => /\ stored' = Append(stored, hl7_message)
                /\ Len(acks) = Len(stored)
                /\ acks' = acks]_vars

C29_Witness ==
    /\ rpc = "ack"
    /\ Len(stored) = 2
    /\ Len(acks) = 1
    /\ stored[2] = hl7_message
    /\ acks = AcksOf(<<stored[1]>>)

\* a connection leaves the listen queue
AcceptStep == Len(backlog') < Len(backlog)

\* C30: the receiver has one session open at most: a connection is taken
\* from the queue only when the listener is in accept with no connection
\* open, the session before it closed and its buffer gone, and the session
\* that begins reads that connection's stream; a connection is open exactly
\* while the listener is inside handle_client; the buffer is always a piece
\* of the current connection's stream, and everything extracted, stored and
\* acknowledged since the accept comes from that stream alone
C30_OneActiveSession ==
    /\ [][AcceptStep
             => /\ rpc = "accept"
                /\ conn = "none"
                /\ buffer = <<>>
                /\ (closes = 1 \/ (closes = 0 /\ lastEnd = "none" /\ wireIn = <<>>))
                /\ backlog' = Tail(backlog)
                /\ wireIn' = Head(backlog)
                /\ buffer' = <<>>
                /\ stored' = <<>>
                /\ acks' = <<>>]_vars
    /\ [](conn = "accepted" <=> rpc # "accept")
    /\ [](closes <= 1 /\ (closes = 1 => conn = "none"))
    /\ [](buffer = SubSeq(wireIn, bufBase + 1, bufBase + Len(buffer)))
    /\ [](/\ IsPrefix(extracted, OneReadPayloads(wireIn))
          /\ IsPrefix(stored, extracted)
          /\ acks = AcksOf(SubSeq(stored, 1, Len(acks))))

C30_Witness ==
    /\ conn = "accepted"
    /\ rpc = "ack"
    /\ wireIn = <<11, 66, 28, 13, 11>>
    /\ stored = << <<66>> >>
    /\ acks = <<>>
    /\ backlog = << <<11, 65, 28, 13>>, <<65>> >>

====
